---- MODULE Spec2Model ----
(***************************************************************************)
(* A model of the streaming chat-completion client of the scrollytelling   *)
(* application: src/src/utils/llmProvider.ts (generateResponseStream,      *)
(* generateResponse, isConfigured, getLLMConfig) and the App component     *)
(* that drives it (src/unnamed/part_000).                                  *)
(*                                                                         *)
(* Text is a sequence of code points and a response body a sequence of     *)
(* bytes (0..255), so that the UTF-8 decoding, the line splitting and the  *)
(* JSON parsing of the decode loop are computed, not assumed.              *)
(***************************************************************************)
EXTENDS Integers, Sequences, FiniteSets, TLC

(***************************************************************************)
(* Bounds of the model.                                                    *)
(***************************************************************************)
\* the most lines a generated response body holds
MaxLines == 2

(***************************************************************************)
(* TextDecoder (UTF-8, non-fatal, { stream: true }).                       *)
(* The decoder's state is the in-progress code point: cp, the bytes seen   *)
(* and needed, the bounds of the next continuation byte, and whether a     *)
(* leading byte-order mark is still to be dropped.                         *)
(***************************************************************************)
NewTextDecoder ==
    [cp |-> 0, seen |-> 0, need |-> 0, lo |-> 128, hi |-> 191, bom |-> TRUE]

\* the code points one output token adds to the text: a leading U+FEFF is dropped
EmitCodePoint(st, c) ==
    [st  |-> [cp |-> 0, seen |-> 0, need |-> 0, lo |-> 128, hi |-> 191, bom |-> FALSE],
     out |-> IF st.bom /\ c = 65279 THEN <<>> ELSE <<c>>]

\* a byte met when no code point is in progress
DecodeLeadByte(st, b) ==
    IF b <= 127 THEN EmitCodePoint(st, b)
    ELSE IF b >= 194 /\ b <= 223
         THEN [st |-> [st EXCEPT !.need = 1, !.seen = 0, !.cp = b % 32], out |-> <<>>]
    ELSE IF b >= 224 /\ b <= 239
         THEN [st |-> [st EXCEPT !.need = 2, !.seen = 0, !.cp = b % 16,
                                 !.lo = IF b = 224 THEN 160 ELSE 128,
                                 !.hi = IF b = 237 THEN 159 ELSE 191],
               out |-> <<>>]
    ELSE IF b >= 240 /\ b <= 244
         THEN [st |-> [st EXCEPT !.need = 3, !.seen = 0, !.cp = b % 8,
                                 !.lo = IF b = 240 THEN 144 ELSE 128,
                                 !.hi = IF b = 244 THEN 143 ELSE 191],
               out |-> <<>>]
    ELSE EmitCodePoint(st, 65533)

\* one byte through the decoder: the new state and the code points produced
DecodeByte(st, b) ==
    IF st.need = 0 THEN DecodeLeadByte(st, b)
    ELSE IF b < st.lo \/ b > st.hi
         THEN \* the sequence is broken: U+FFFD, and the byte is decoded again
              LET bad  == EmitCodePoint(st, 65533)
                  redo == DecodeLeadByte(bad.st, b)
              IN  [st |-> redo.st, out |-> bad.out \o redo.out]
    ELSE LET c == st.cp * 64 + (b % 64)
         IN  IF st.seen + 1 = st.need
             THEN EmitCodePoint(st, c)
             ELSE [st |-> [st EXCEPT !.cp = c, !.seen = st.seen + 1,
                                     !.lo = 128, !.hi = 191],
                   out |-> <<>>]

\* the bytes lo..hi through the decoder, by halves
RECURSIVE DecodeRange(_, _, _, _)
DecodeRange(st, bytes, lo, hi) ==
    IF lo > hi THEN [st |-> st, text |-> <<>>]
    ELSE IF st.need = 0 /\ ~st.bom /\ \A i \in lo..hi : bytes[i] <= 127
         THEN \* a run of ASCII bytes is its own text
              [st |-> st, text |-> SubSeq(bytes, lo, hi)]
    ELSE IF lo = hi
         THEN LET r == DecodeByte(st, bytes[lo]) IN [st |-> r.st, text |-> r.out]
    ELSE LET mid == (lo + hi) \div 2
             l == DecodeRange(st, bytes, lo, mid)
         IN  \* the left half is decoded before the right half starts
             IF l.st.need >= 0
             THEN LET r == DecodeRange(l.st, bytes, mid + 1, hi)
                  IN  [st |-> r.st, text |-> l.text \o r.text]
             ELSE [st |-> st, text |-> <<>>]

\* decoder.decode(value, { stream: true }): an incomplete sequence at the end
\* of the chunk stays in the decoder's state
DecodeStream(st, bytes) == DecodeRange(st, bytes, 1, Len(bytes))

\* decoder.decode(value): without the stream flag every call starts afresh and
\* an incomplete sequence at the end of the chunk becomes U+FFFD
DecodeNoStream(st, bytes) ==
    LET r == DecodeRange(NewTextDecoder, bytes, 1, Len(bytes))
    IN  [st   |-> NewTextDecoder,
         text |-> IF r.st.need = 0 THEN r.text ELSE r.text \o <<65533>>]

decoder_decode(st, bytes) == DecodeStream(st, bytes)

(***************************************************************************)
(* String.prototype.split('\n'), startsWith and slice.                     *)
(***************************************************************************)
\* buffer.split('\n'): the texts between the newlines; always at least one
\* element, the last one the text after the last newline
Split(s) ==
    LET nl == {i \in 1..Len(s) : s[i] = 10}
        n == Cardinality(nl)
        At(k) == IF k = 0 THEN 0
                 ELSE IF k > n THEN Len(s) + 1
                 ELSE CHOOSE i \in nl : Cardinality({j \in nl : j <= i}) = k
    IN  [k \in 1..(n + 1) |-> SubSeq(s, At(k - 1) + 1, At(k) - 1)]

StartsWith(s, p) == Len(s) >= Len(p) /\ SubSeq(s, 1, Len(p)) = p

Slice(s, n) == SubSeq(s, n + 1, Len(s))

\* "data: "
DataPrefix == <<100, 97, 116, 97, 58, 32>>
\* "[DONE]"
DoneSentinel == <<91, 68, 79, 78, 69, 93>>

(***************************************************************************)
(* JSON.parse, for the JSON without string escapes, fractions or exponents.*)
(* A value is [t, v]: t its type, v its content (the code points of a      *)
(* string, the digits of a number, the elements of an array, the           *)
(* <<key, value>> members of an object).                                   *)
(***************************************************************************)
Undefined == [t |-> "undefined", v |-> <<>>]
JNull == [t |-> "null", v |-> <<>>]
JStr(s) == [t |-> "str", v |-> s]

Fail(i) == [ok |-> FALSE, val |-> Undefined, next |-> i]
Ok(val, i) == [ok |-> TRUE, val |-> val, next |-> i]

IsWs(c) == c \in {32, 9, 10, 13}
IsDigit(c) == c >= 48 /\ c <= 57

RECURSIVE SkipWs(_, _)
SkipWs(s, i) == IF i <= Len(s) /\ IsWs(s[i]) THEN SkipWs(s, i + 1) ELSE i

\* s[i] is the opening quote; control characters end the parse, and so does a
\* backslash (escapes are outside the modelled payloads)
RECURSIVE ParseStringFrom(_, _, _)
ParseStringFrom(s, i, acc) ==
    IF i > Len(s) THEN Fail(i)
    ELSE IF s[i] = 34 THEN Ok(JStr(acc), i + 1)
    ELSE IF s[i] < 32 \/ s[i] = 92 THEN Fail(i)
    ELSE ParseStringFrom(s, i + 1, Append(acc, s[i]))

RECURSIVE DigitsFrom(_, _)
DigitsFrom(s, i) == IF i <= Len(s) /\ IsDigit(s[i]) THEN DigitsFrom(s, i + 1) ELSE i

ParseNumber(s, i) ==
    LET j == IF s[i] = 45 THEN i + 1 ELSE i
        k == DigitsFrom(s, j)
    IN  IF k = j THEN Fail(i)
        ELSE IF k - j > 1 /\ s[j] = 48 THEN Fail(i)
        ELSE Ok([t |-> "num", v |-> SubSeq(s, i, k - 1)], k)

ParseLiteral(s, i, word, val) ==
    IF i + Len(word) - 1 <= Len(s) /\ SubSeq(s, i, i + Len(word) - 1) = word
    THEN Ok(val, i + Len(word))
    ELSE Fail(i)

RECURSIVE ParseValue(_, _)
RECURSIVE ParseElements(_, _, _)
RECURSIVE ParseMembers(_, _, _)

\* after '[' or ',': a value, then ',' or ']'
ParseElements(s, i, acc) ==
    LET r == ParseValue(s, SkipWs(s, i))
        j == SkipWs(s, r.next)
    IN  IF ~r.ok \/ j > Len(s) THEN Fail(i)
        ELSE IF s[j] = 44 THEN ParseElements(s, j + 1, Append(acc, r.val))
        ELSE IF s[j] = 93 THEN Ok([t |-> "arr", v |-> Append(acc, r.val)], j + 1)
        ELSE Fail(j)

\* after '{' or ',': "key" : value, then ',' or '}'
ParseMembers(s, i, acc) ==
    LET k == SkipWs(s, i)
        key == IF k <= Len(s) /\ s[k] = 34 THEN ParseStringFrom(s, k + 1, <<>>) ELSE Fail(k)
        c == SkipWs(s, key.next)
        r == ParseValue(s, SkipWs(s, c + 1))
        j == SkipWs(s, r.next)
    IN  IF ~key.ok \/ c > Len(s) THEN Fail(i)
        ELSE IF s[c] # 58 THEN Fail(c)
        ELSE IF ~r.ok \/ j > Len(s) THEN Fail(i)
        ELSE IF s[j] = 44 THEN ParseMembers(s, j + 1, Append(acc, <<key.val.v, r.val>>))
        ELSE IF s[j] = 125 THEN Ok([t |-> "obj", v |-> Append(acc, <<key.val.v, r.val>>)], j + 1)
        ELSE Fail(j)

ParseValue(s, i) ==
    IF i > Len(s) THEN Fail(i)
    ELSE IF s[i] = 34 THEN ParseStringFrom(s, i + 1, <<>>)
    ELSE IF s[i] = 91
         THEN LET j == SkipWs(s, i + 1)
              IN  IF j <= Len(s) /\ s[j] = 93 THEN Ok([t |-> "arr", v |-> <<>>], j + 1)
                  ELSE ParseElements(s, i + 1, <<>>)
    ELSE IF s[i] = 123
         THEN LET j == SkipWs(s, i + 1)
              IN  IF j <= Len(s) /\ s[j] = 125 THEN Ok([t |-> "obj", v |-> <<>>], j + 1)
                  ELSE ParseMembers(s, i + 1, <<>>)
    ELSE IF s[i] = 110 THEN ParseLiteral(s, i, <<110, 117, 108, 108>>, JNull)
    ELSE IF s[i] = 116 THEN ParseLiteral(s, i, <<116, 114, 117, 101>>, [t |-> "true", v |-> <<>>])
    ELSE IF s[i] = 102 THEN ParseLiteral(s, i, <<102, 97, 108, 115, 101>>, [t |-> "false", v |-> <<>>])
    ELSE IF s[i] = 45 \/ IsDigit(s[i]) THEN ParseNumber(s, i)
    ELSE Fail(i)

\* JSON.parse(data): ok is FALSE where JSON.parse throws a SyntaxError
JSONParse(s) ==
    LET r == ParseValue(s, SkipWs(s, 1))
    IN  IF r.ok /\ SkipWs(s, r.next) > Len(s)
        THEN [ok |-> TRUE, val |-> r.val]
        ELSE [ok |-> FALSE, val |-> Undefined]


(***************************************************************************)
(* The body of the for loop over the complete lines of one chunk.          *)
(***************************************************************************)
\* "choices", "delta", "content"
KeyChoices == <<99, 104, 111, 105, 99, 101, 115>>
KeyDelta == <<100, 101, 108, 116, 97>>
KeyContent == <<99, 111, 110, 116, 101, 110, 116>>

\* x[key] of a parsed value: the last member of that name of an object
RECURSIVE MemberFrom(_, _, _)
MemberFrom(members, key, i) ==
    IF i = 0 THEN Undefined
    ELSE IF members[i][1] = key THEN members[i][2]
    ELSE MemberFrom(members, key, i - 1)

Prop(x, key) == IF x.t = "obj" THEN MemberFrom(x.v, key, Len(x.v)) ELSE Undefined

IsNullish(x) == x.t \in {"undefined", "null"}

\* x?.key
OptProp(x, key) == IF IsNullish(x) THEN Undefined ELSE Prop(x, key)

\* x?.[0]
OptFirst(x) ==
    IF x.t = "arr" /\ Len(x.v) > 0 THEN x.v[1]
    ELSE IF x.t = "str" /\ Len(x.v) > 0 THEN JStr(<<x.v[1]>>)
    ELSE Undefined

\* parsed.choices?.[0]?.delta?.content; parsed.choices throws a TypeError
\* when parsed is null
ContentOf(parsed) == OptProp(OptProp(OptFirst(Prop(parsed, KeyChoices)), KeyDelta), KeyContent)

\* if (content)
Truthy(x) ==
    CASE x.t \in {"undefined", "null", "false"} -> FALSE
      [] x.t = "str" -> x.v # <<>>
      [] x.t = "num" -> \E i \in 1..Len(x.v) : x.v[i] \in 49..57
      [] OTHER -> TRUE

\* ProcessLine with the prefix test loosened to 'data:' (and slice(5))
ProcessLineLoosePrefix(line) ==
    IF ~StartsWith(line, SubSeq(DataPrefix, 1, 5)) THEN [kind |-> "skip", content |-> Undefined]
    ELSE LET data == Slice(line, 5)
         IN  IF data = DoneSentinel THEN [kind |-> "return", content |-> Undefined]
             ELSE LET parsed == JSONParse(data)
                      content == IF parsed.ok /\ parsed.val.t # "null"
                                 THEN ContentOf(parsed.val) ELSE Undefined
                  IN  IF Truthy(content)
                      THEN [kind |-> "yield", content |-> content]
                      ELSE [kind |-> "skip", content |-> Undefined]

\* ProcessLine with the catch block ending the decode instead of continuing
ProcessLineReturnOnBad(line) ==
    IF ~StartsWith(line, DataPrefix) THEN [kind |-> "skip", content |-> Undefined]
    ELSE LET data == Slice(line, 6)
         IN  IF data = DoneSentinel THEN [kind |-> "return", content |-> Undefined]
             ELSE LET parsed == JSONParse(data)
                      content == IF parsed.ok /\ parsed.val.t # "null"
                                 THEN ContentOf(parsed.val) ELSE Undefined
                  IN  IF ~parsed.ok THEN [kind |-> "return", content |-> Undefined]
                      ELSE IF Truthy(content)
                      THEN [kind |-> "yield", content |-> content]
                      ELSE [kind |-> "skip", content |-> Undefined]

\* one line of the for loop: "skip" (nothing happens), "return" (the sentinel)
\* or "yield" (content is the fragment)
ProcessLine(line) ==
    IF ~StartsWith(line, DataPrefix) THEN [kind |-> "skip", content |-> Undefined]
    ELSE LET data == Slice(line, 6)
         IN  IF data = DoneSentinel THEN [kind |-> "return", content |-> Undefined]
             ELSE LET parsed == JSONParse(data)
                      \* a TypeError, caught like the SyntaxError, when parsed is null
                      content == IF parsed.ok /\ parsed.val.t # "null"
                                 THEN ContentOf(parsed.val) ELSE Undefined
                  IN  IF Truthy(content)
                      THEN [kind |-> "yield", content |-> content]
                      ELSE [kind |-> "skip", content |-> Undefined]

\* the for loop from its current line to its next suspension: a yield (rest is
\* what the loop still has to visit), the return at the sentinel, or the end of
\* the lines ("next": back to reader.read())
\* RunLines with the sentinel only ending the for loop of its chunk (break)
RECURSIVE RunLinesBreakAtSentinel(_)
RunLinesBreakAtSentinel(ls) ==
    IF ls = <<>> THEN [kind |-> "next", content |-> Undefined, rest |-> <<>>]
    ELSE LET r == ProcessLine(Head(ls))
         IN  IF r.kind = "skip" THEN RunLinesBreakAtSentinel(Tail(ls))
             ELSE IF r.kind = "return"
                  THEN [kind |-> "next", content |-> Undefined, rest |-> <<>>]
             ELSE [kind |-> r.kind, content |-> r.content, rest |-> Tail(ls)]

RECURSIVE RunLines(_)
RunLines(ls) ==
    IF ls = <<>> THEN [kind |-> "next", content |-> Undefined, rest |-> <<>>]
    ELSE LET r == ProcessLine(Head(ls))
         IN  IF r.kind = "skip" THEN RunLines(Tail(ls))
             ELSE [kind |-> r.kind, content |-> r.content, rest |-> Tail(ls)]

\* nothing held back
lines_pop_nothing(ls) == <<>>

\* buffer = lines.pop() || ''
lines_pop(ls) == ls[Len(ls)]

\* the popped one visited too
AllLines(ls) == ls

\* the lines the for loop visits: all but the popped one
CompleteLines(ls) == SubSeq(ls, 1, Len(ls) - 1)


(***************************************************************************)
(* Response bodies: the lines a server may send, as bytes.                 *)
(***************************************************************************)
\* data: {"choices":[{"delta":{"content":"Hi"}}]}
LineHi ==
    <<100, 97, 116, 97, 58, 32, 123, 34, 99, 104, 111, 105, 99, 101, 115, 34, 58, 91, 123, 34, 100, 101, 108, 116, 97, 34, 58, 123, 34, 99, 111, 110, 116, 101, 110, 116, 34, 58, 34, 72, 105, 34, 125, 125, 93, 125>>
\* data: {"choices":[{"delta":{"content":"é!"}}]}   -- the content holds a two-byte character
LineMultiByte ==
    <<100, 97, 116, 97, 58, 32, 123, 34, 99, 104, 111, 105, 99, 101, 115, 34, 58, 91, 123, 34, 100, 101, 108, 116, 97, 34, 58, 123, 34, 99, 111, 110, 116, 101, 110, 116, 34, 58, 34, 195, 169, 33, 34, 125, 125, 93, 125>>
\* data: [DONE]
LineDone ==
    <<100, 97, 116, 97, 58, 32, 91, 68, 79, 78, 69, 93>>
\* data: not-json
LineNotJson ==
    <<100, 97, 116, 97, 58, 32, 110, 111, 116, 45, 106, 115, 111, 110>>
\* (empty)   -- the blank separator line
LineBlank ==
    <<>>

\* the lines that appear between two valid data lines
OtherLines ==
    {\* data:{"choices":[{"delta":{"content":"Hi"}}]}   -- 'data:' without the space
     <<100, 97, 116, 97, 58, 123, 34, 99, 104, 111, 105, 99, 101, 115, 34, 58, 91, 123, 34, 100, 101, 108, 116, 97, 34, 58, 123, 34, 99, 111, 110, 116, 101, 110, 116, 34, 58, 34, 72, 105, 34, 125, 125, 93, 125>>,
     \* event: x   -- another SSE field
     <<101, 118, 101, 110, 116, 58, 32, 120>>,
     \* data: {"choices":[{"delta":{"content":""}}]}
     <<100, 97, 116, 97, 58, 32, 123, 34, 99, 104, 111, 105, 99, 101, 115, 34, 58, 91, 123, 34, 100, 101, 108, 116, 97, 34, 58, 123, 34, 99, 111, 110, 116, 101, 110, 116, 34, 58, 34, 34, 125, 125, 93, 125>>,
     \* data: {"choices":[{"delta":{"content":null}}]}
     <<100, 97, 116, 97, 58, 32, 123, 34, 99, 104, 111, 105, 99, 101, 115, 34, 58, 91, 123, 34, 100, 101, 108, 116, 97, 34, 58, 123, 34, 99, 111, 110, 116, 101, 110, 116, 34, 58, 110, 117, 108, 108, 125, 125, 93, 125>>,
     \* data: {"choices":[{"delta":{"role":"a"}}]}   -- a delta without content
     <<100, 97, 116, 97, 58, 32, 123, 34, 99, 104, 111, 105, 99, 101, 115, 34, 58, 91, 123, 34, 100, 101, 108, 116, 97, 34, 58, 123, 34, 114, 111, 108, 101, 34, 58, 34, 97, 34, 125, 125, 93, 125>>,
     \* data: {"choices":[]}
     <<100, 97, 116, 97, 58, 32, 123, 34, 99, 104, 111, 105, 99, 101, 115, 34, 58, 91, 93, 125>>,
     \* data: null   -- valid JSON, and parsed.choices throws
     <<100, 97, 116, 97, 58, 32, 110, 117, 108, 108>>,
     \* data: {"choices":[{"delta":{"content":"Hi   -- a JSON line cut short
     <<100, 97, 116, 97, 58, 32, 123, 34, 99, 104, 111, 105, 99, 101, 115, 34, 58, 91, 123, 34, 100, 101, 108, 116, 97, 34, 58, 123, 34, 99, 111, 110, 116, 101, 110, 116, 34, 58, 34, 72, 105>>,
     \* data: {"choices":[{"delta":{"content":"ok"}}]}\r   -- a line ended by CR LF
     <<100, 97, 116, 97, 58, 32, 123, 34, 99, 104, 111, 105, 99, 101, 115, 34, 58, 91, 123, 34, 100, 101, 108, 116, 97, 34, 58, 123, 34, 99, 111, 110, 116, 101, 110, 116, 34, 58, 34, 111, 107, 34, 125, 125, 93, 125, 13>>,
     \* data: {"choices":[{"index":0,"delta":{"content":"ok"},"finish_reason":null}]}   -- a chunk as a provider sends it
     <<100, 97, 116, 97, 58, 32, 123, 34, 99, 104, 111, 105, 99, 101, 115, 34, 58, 91, 123, 34, 105, 110, 100, 101, 120, 34, 58, 48, 44, 34, 100, 101, 108, 116, 97, 34, 58, 123, 34, 99, 111, 110, 116, 101, 110, 116, 34, 58, 34, 111, 107, 34, 125, 44, 34, 102, 105, 110, 105, 115, 104, 95, 114, 101, 97, 115, 111, 110, 34, 58, 110, 117, 108, 108, 125, 93, 125>>}

RECURSIVE Body(_)
\* the bytes of a body: every line followed by a newline
Body(ls) == IF ls = <<>> THEN <<>> ELSE Head(ls) \o <<10>> \o Body(Tail(ls))

\* the bodies of the decode specification: up to MaxLines lines, each any of
\* five, every other line between two valid ones, and bodies whose last line
\* has no newline
Streams ==
    {Body(ls) : ls \in UNION {[1..m -> {LineHi, LineMultiByte, LineDone, LineNotJson, LineBlank}] :
                                 m \in 0..MaxLines}}
    \cup {Body(<<LineHi, x, LineMultiByte>>) : x \in OtherLines \cup {LineNotJson, LineDone}}
    \cup {Body(<<LineHi>>) \o LineMultiByte, LineHi, Body(<<LineHi>>) \o <<100, 97>>}

\* the bodies of the call specification
FewStreams == {Body(<<LineHi, LineBlank, LineDone>>), Body(<<LineNotJson>>) \o LineHi}


(***************************************************************************)
(* Configurations. A config is a record; a field the object does not have  *)
(* is not in its domain. null is the record NullConfig.                    *)
(***************************************************************************)
NullConfig == [null |-> TRUE]

IsNull(c) == "null" \in DOMAIN c

\* the value of a string field is truthy: present and not ''
Has(c, f) == ~IsNull(c) /\ f \in DOMAIN c /\ c[f] # ""

\* the loaded catalog (config.llm of config.json)
DefaultCatalog ==
    [predefinedModels |-> <<[id |-> "m1"], [id |-> "m2"]>>,
     providers |-> <<[url |-> "https://p", name |-> "P"]>>]

NoCatalog == [none |-> TRUE]

\* another config.json: other models, another provider
OtherCatalog ==
    [predefinedModels |-> <<[id |-> "m3"]>>,
     providers |-> <<[url |-> "https://q", name |-> "Q"]>>]

\* what config.json may hold
Catalogs == {DefaultCatalog, OtherCatalog}

\* what config.json holds where the App is deployed
AppCatalogs == {DefaultCatalog}

\* the config.json a caller of getLLMConfig may be served
CatalogsFor(caller) == IF caller = "call" THEN Catalogs ELSE AppCatalogs

\* the configs generateResponse is called with
Configs ==
    {NullConfig,
     [baseURL |-> "https://p", baseUrl |-> "https://p", apiKey |-> "k",
      models |-> DefaultCatalog.predefinedModels, selectedModel |-> "m2"],
     [baseURL |-> "https://p", apiKey |-> "k"],
     [baseUrl |-> "https://p", apiKey |-> "k",
      models |-> DefaultCatalog.predefinedModels, selectedModel |-> "m1"],
     [apiKey |-> "k"],
     [baseURL |-> "", apiKey |-> "k"],
     [baseURL |-> "https://p"],
     [baseURL |-> "https://p", apiKey |-> ""]}

\* the config of the decode specification
GoodConfig ==
    [baseURL |-> "https://p", baseUrl |-> "https://p", apiKey |-> "k",
     models |-> DefaultCatalog.predefinedModels, selectedModel |-> "m2"]

\* isConfigured(config): config && config.apiKey && config.baseURL
isConfiguredKeyOnly(c) == ~IsNull(c) /\ Has(c, "apiKey")

isConfigured(c) == ~IsNull(c) /\ Has(c, "apiKey") /\ Has(c, "baseURL")

(***************************************************************************)
(* The state.                                                              *)
(***************************************************************************)
VARIABLES
    config,          \* the config generateResponse was called with
    stream,          \* the bytes of the response body the server sends
    pc,              \* where generateResponseStream is suspended
    llmConfigCache,  \* the module's cached catalog
    configCache,     \* config.ts's cached config.json
    requests,        \* the HTTP requests issued, in order
    response,        \* the response fetch resolved with
    reader,          \* "none", "locked" or "released"
    releases,        \* the reader.releaseLock() calls made
    readCalled,      \* whether reader.read() has been called
    pos,             \* the bytes of the body delivered so far
    decoder,         \* the TextDecoder's state
    buffer,          \* the decode buffer
    lines,           \* the lines the for loop has still to visit
    emitted,         \* the fragments yielded, in order
    ended,           \* how the decode ended: "no", "eof", "sentinel", "error"
    error,           \* the error generateResponseStream threw
    fullText,        \* generateResponse's accumulator
    result,          \* what generateResponse returned
    app,             \* the App component's state
    storage,         \* localStorage's item 'csv_scrollytelling_llm_config'
    effect,          \* where the App's initial load effect is
    resolver,        \* the getLLMConfig calls in flight, by caller
    generations,     \* the generations the App has started
    lastCall,        \* the last direct call of an exported function, and its outcome
    second,          \* a second call of generateResponseStream, run concurrently
    demo             \* the DemoCards component: its state and its calls in flight

\* the state of one generateResponse call and of the module's cache
callVars ==
    <<config, stream, pc, llmConfigCache, configCache, requests, response, reader, releases, readCalled, pos,
      decoder, buffer, lines, emitted, ended, error, fullText, result>>

\* the state of the App and of durable storage
appVars == <<app, storage, effect, resolver, generations, lastCall, second, demo>>

vars == <<callVars, appVars>>

NoError == [msg |-> "none"]
NoResult == [none |-> TRUE]
NoResponse == [none |-> TRUE]

\* no App is mounted: generateResponse is called directly
NoApp == [none |-> TRUE]
\* localStorage.getItem gives null
NoItem == [none |-> TRUE]
\* no exported function has been called directly
NoCall == [op |-> "none"]
\* no DemoCards component is rendered
NoDemo == [rendered |-> FALSE]

\* no second call is made
NoSecond == [pc |-> "none"]
NoResolver == [c \in {"load", "click", "call"} |-> [st |-> "idle"]]

TypeOK ==
    /\ pc \in {"none", "idle", "awaitCatalog", "awaitFetch", "awaitRead", "yielded", "done", "failed"}
    /\ second.pc \in {"none", "awaitRead", "yielded", "done", "failed", "stopped"}
    /\ reader \in {"none", "locked", "released"}
    /\ ended \in {"no", "eof", "sentinel", "error"}
    /\ releases \in Nat /\ readCalled \in BOOLEAN /\ pos \in 0..Len(stream)

\* the state before generateResponse(c, prompt) is called, the server being about
\* to answer with body s
CallOf(c, s) ==
    /\ config = c
    /\ stream = s
    /\ pc = "idle"
    /\ llmConfigCache = NoCatalog
    /\ configCache = NoCatalog
    /\ requests = <<>>
    /\ response = NoResponse
    /\ reader = "none"
    /\ releases = 0
    /\ readCalled = FALSE
    /\ pos = 0
    /\ decoder = NewTextDecoder
    /\ buffer = <<>>
    /\ lines = <<>>
    /\ emitted = <<>>
    /\ ended = "no"
    /\ error = NoError
    /\ fullText = <<>>
    /\ result = NoResult
    /\ app = NoApp
    /\ storage = NoItem
    /\ effect = "none"
    /\ resolver = NoResolver
    /\ generations = 0
    /\ lastCall = NoCall

\* any config, a few bodies
Init == second = NoSecond /\ demo = NoDemo /\ \E c \in Configs, s \in FewStreams : CallOf(c, s)

\* a configured call, every body
InitDecode == second = NoSecond /\ demo = NoDemo /\ \E s \in Streams : CallOf(GoodConfig, s)

(***************************************************************************)
(* generateResponseStream, driven by generateResponse's for await loop.    *)
(***************************************************************************)
\* String(chunk) of fullText += chunk
ToStr(x) ==
    CASE x.t = "str" -> x.v
      [] x.t = "num" -> x.v
      [] x.t = "true" -> <<116, 114, 117, 101>>
      [] OTHER -> <<91, 111, 98, 106, 101, 99, 116, 93>>

\* fullText = chunk
AccumulateOverwrite(text, chunk) == ToStr(chunk)

\* fullText += chunk
Accumulate(text, chunk) == text \o ToStr(chunk)

\* the release written after the loop instead of in a finally block
ReleasesAfterLoop(exit) == IF exit = "throw" THEN 0 ELSE 1

\* no finally block and no release
ReleasesNever(exit) == 0

\* the finally block: the releaseLock() calls it makes on the exit taken
\* ("break", "return" or "throw")
FinallyReleases(exit) == 1

\* the same with the text so far returned on an error too
FinishWithPartialText(how, err, text) ==
    /\ pc' = IF how = "error" THEN "failed" ELSE "done"
    /\ ended' = how
    /\ error' = err
    /\ releases' = releases + 1
    /\ reader' = "released"
    /\ result' = [text |-> text]

\* the generator ends: the finally block runs, then the for await loop ends and
\* generateResponse returns (how = "eof" or "sentinel") or rethrows (an error)
Finish(how, err, text) ==
    /\ pc' = IF how = "error" THEN "failed" ELSE "done"
    /\ ended' = how
    /\ error' = err
    /\ releases' = releases + FinallyReleases(
                       CASE how = "eof" -> "break" [] how = "sentinel" -> "return"
                         [] OTHER -> "throw")
    /\ reader' = IF releases' > releases THEN "released" ELSE reader
    /\ result' = IF how = "error" THEN NoResult ELSE [text |-> text]

\* the for loop runs over ls until it yields, returns, or comes back to
\* reader.read(); text is generateResponse's accumulator
Resume(ls, text) ==
    \E r \in {RunLines(ls)} :
        /\ fullText' = text
        /\ lines' = r.rest
        /\ CASE r.kind = "yield" ->
                  /\ emitted' = Append(emitted, r.content)
                  /\ pc' = "yielded"
                  /\ UNCHANGED <<readCalled, reader, releases, ended, error, result>>
             [] r.kind = "return" ->
                  /\ Finish("sentinel", NoError, text)
                  /\ UNCHANGED <<emitted, readCalled>>
             [] OTHER ->
                  /\ pc' = "awaitRead"
                  /\ readCalled' = TRUE
                  /\ UNCHANGED <<emitted, reader, releases, ended, error, result>>

\* if (!config || !config.apiKey) throw
ConfigError(c) ==
    IF IsNull(c) \/ ~Has(c, "apiKey") THEN [msg |-> "API key is required"] ELSE NoError

\* generateResponse is called and pulls for the first time
Start ==
    /\ pc = "idle"
    /\ UNCHANGED appVars
    /\ IF ConfigError(config) # NoError
       THEN /\ pc' = "failed"
            /\ error' = ConfigError(config)
       ELSE /\ pc' = "awaitCatalog"
            /\ UNCHANGED error
    /\ UNCHANGED <<config, stream, llmConfigCache, configCache, requests, response, reader, releases, readCalled,
                   pos, decoder, buffer, lines, emitted, ended, fullText, result>>

\* config.selectedModel || config.models?.[0]?.id || llmConfig.predefinedModels[0].id
ModelOf(c, llmConfig) ==
    IF Has(c, "selectedModel") THEN c.selectedModel
    ELSE IF "models" \in DOMAIN c /\ Len(c.models) > 0 /\ c.models[1].id # ""
         THEN c.models[1].id
    ELSE llmConfig.predefinedModels[1].id

\* `${config.baseURL}/completions`
RequestUrlCompletions(c) ==
    <<IF "baseURL" \in DOMAIN c THEN c.baseURL ELSE "undefined", "/completions">>

\* `${config.baseURL}/chat/completions`
RequestUrl(c) ==
    <<IF "baseURL" \in DOMAIN c THEN c.baseURL ELSE "undefined", "/chat/completions">>

\* await getLLMConfigCached() resolves, and the POST is issued
CatalogResolve ==
    /\ pc = "awaitCatalog"
    /\ UNCHANGED appVars
    /\ llmConfigCache' = IF llmConfigCache = NoCatalog THEN DefaultCatalog ELSE llmConfigCache
    /\ configCache' = IF llmConfigCache = NoCatalog /\ configCache = NoCatalog
                      THEN DefaultCatalog ELSE configCache
    /\ requests' = Append(requests,
                          [method |-> "POST", url |-> RequestUrl(config),
                           auth |-> config.apiKey,
                           model |-> ModelOf(config, llmConfigCache')])
    /\ pc' = "awaitFetch"
    /\ UNCHANGED <<config, stream, response, reader, releases, readCalled, pos, decoder,
                   buffer, lines, emitted, ended, error, fullText, result>>

\* await getLLMConfigCached() rejects: config.json could not be loaded
CatalogReject ==
    /\ pc = "awaitCatalog"
    /\ UNCHANGED appVars
    /\ llmConfigCache = NoCatalog
    /\ pc' = "failed"
    /\ error' = [msg |-> "Failed to load application configuration"]
    /\ UNCHANGED <<config, stream, llmConfigCache, configCache, requests, response, reader, releases, readCalled,
                   pos, decoder, buffer, lines, emitted, ended, fullText, result>>

\* only server errors taken as failures
ResponseOkBelow500(status) == status < 500

\* response.ok
ResponseOk(status) == status >= 200 /\ status <= 299

StatusText(status) ==
    CASE status = 200 -> "OK" [] status = 404 -> "Not Found"
      [] status = 401 -> "Unauthorized" [] OTHER -> "Internal Server Error"

HttpError(status) ==
    [msg |-> "API request failed", status |-> status, statusText |-> StatusText(status)]

NoReaderError == [msg |-> "Failed to get response stream"]

\* the checks without the test of the reader
ResponseErrorNoReaderTest(status, hasBody) ==
    IF ~ResponseOk(status) THEN HttpError(status) ELSE NoError

\* the error of the checks between the fetch and the loop, NoError if they pass
ResponseError(status, hasBody) ==
    IF ~ResponseOk(status) THEN HttpError(status)
    ELSE IF ~hasBody THEN NoReaderError
    ELSE NoError

\* fetch resolves with a response
FetchResolve ==
    /\ pc = "awaitFetch"
    /\ UNCHANGED appVars
    /\ \E status \in {200, 401, 404, 500}, hasBody \in BOOLEAN :
          /\ response' = [status |-> status, hasBody |-> hasBody]
          /\ IF ResponseError(status, hasBody) # NoError
             THEN /\ pc' = "failed"
                  /\ error' = ResponseError(status, hasBody)
                  /\ UNCHANGED <<reader, readCalled>>
             ELSE /\ reader' = "locked"
                  /\ readCalled' = TRUE
                  /\ pc' = "awaitRead"
                  /\ UNCHANGED error
    /\ UNCHANGED <<config, stream, llmConfigCache, configCache, requests, releases, pos, decoder,
                   buffer, lines, emitted, ended, fullText, result>>

\* fetch rejects: the network failed
FetchReject ==
    /\ pc = "awaitFetch"
    /\ UNCHANGED appVars
    /\ pc' = "failed"
    /\ error' = [msg |-> "Failed to fetch"]
    /\ UNCHANGED <<config, stream, llmConfigCache, configCache, requests, response, reader, releases, readCalled,
                   pos, decoder, buffer, lines, emitted, ended, fullText, result>>

\* reader.read() resolves with the next k bytes of the body
ReadChunk ==
    /\ pc = "awaitRead"
    /\ UNCHANGED appVars
    /\ \E k \in 1..(Len(stream) - pos) :
       \E d \in {decoder_decode(decoder, SubSeq(stream, pos + 1, pos + k))} :
       \E ls \in {Split(buffer \o d.text)} :
          /\ pos' = pos + k
          /\ decoder' = d.st
          /\ buffer' = lines_pop(ls)
          /\ Resume(CompleteLines(ls), fullText)
    /\ UNCHANGED <<config, stream, llmConfigCache, configCache, requests, response>>

\* reader.read() resolves with done: the body is exhausted
ReadDone ==
    /\ pc = "awaitRead"
    /\ UNCHANGED appVars
    /\ pos = Len(stream)
    /\ Finish("eof", NoError, fullText)
    /\ UNCHANGED <<config, stream, llmConfigCache, configCache, requests, response, readCalled, pos,
                   decoder, buffer, lines, emitted, fullText>>

\* reader.read() rejects, or decoder.decode throws on what it was given
ReadReject ==
    /\ pc = "awaitRead"
    /\ UNCHANGED appVars
    /\ \E m \in {"read failed", "decode failed"} : Finish("error", [msg |-> m], fullText)
    /\ UNCHANGED <<config, stream, llmConfigCache, configCache, requests, response, readCalled, pos,
                   decoder, buffer, lines, emitted, fullText>>

\* the for await body takes the fragment (fullText += chunk) and pulls again
Consume ==
    /\ pc = "yielded"
    /\ UNCHANGED appVars
    /\ Resume(lines, Accumulate(fullText, emitted[Len(emitted)]))
    /\ UNCHANGED <<config, stream, llmConfigCache, configCache, requests, response, pos, decoder, buffer>>

(***************************************************************************)
(* Durable storage and getLLMConfig.                                       *)
(***************************************************************************)
\* the item holds text that is not JSON
Garbage == [garbage |-> TRUE]

\* what localStorage may hold when the App starts
InitialItems ==
    {NoItem,
     [baseUrl |-> "https://p", apiKey |-> "k", selectedModel |-> "m2"],
     [baseUrl |-> "https://p", apiKey |-> "k"],
     [baseUrl |-> "https://p"],
     Garbage}

\* what localStorage may hold when getLLMConfig is called directly: also a
\* record without a key that carries a model, and one whose model no catalog has
StoredItems ==
    InitialItems \cup
    {[baseUrl |-> "https://p", selectedModel |-> "m2"],
     [baseUrl |-> "", apiKey |-> "k", selectedModel |-> "m1"],
     [baseUrl |-> "https://p", apiKey |-> "k", selectedModel |-> "m9"]}

\* what openaiConfig resolves with: the endpoint under baseUrl, or under both
\* spellings; the library decides what it accepts
PromptConfigs ==
    {[baseUrl |-> "https://q", apiKey |-> "k2"],
     [baseURL |-> "https://q", baseUrl |-> "https://q", apiKey |-> "k2"],
     [baseUrl |-> "ftp://q", apiKey |-> "k2"],
     [baseUrl |-> "https://q", apiKey |-> ""]}

\* what openaiConfig may resolve with for a caller of getLLMConfig: in the App,
\* an http endpoint and a key
PromptConfigsFor(caller) ==
    IF caller = "call" THEN PromptConfigs
    ELSE {[baseUrl |-> "https://q", apiKey |-> "k2"],
          [baseURL |-> "https://q", baseUrl |-> "https://q", apiKey |-> "k2"]}

\* the characters of the endpoint URLs
UrlText(url) ==
    CASE url = "https://p" -> <<104, 116, 116, 112, 115, 58, 47, 47, 112>>
      [] url = "https://q" -> <<104, 116, 116, 112, 115, 58, 47, 47, 113>>
      [] url = "ftp://q" -> <<102, 116, 112, 58, 47, 47, 113>>
      [] url = "https://p/v1" -> <<104, 116, 116, 112, 115, 58, 47, 47, 112, 47, 118, 49>>
      [] OTHER -> <<>>

\* /^https?:\/\//.test(baseUrl)
TestHttpScheme(s) ==
    \/ StartsWith(s, <<104, 116, 116, 112, 58, 47, 47>>)
    \/ StartsWith(s, <<104, 116, 116, 112, 115, 58, 47, 47>>)

\* validateApiKey(baseUrl, apiKey): TRUE when it returns, FALSE when it throws
validateApiKey(baseUrl, apiKey) ==
    /\ ~(apiKey = "" \/ baseUrl = "")
    /\ TestHttpScheme(UrlText(baseUrl))

\* the fields of c and of d, d's winning: { ...c, ...d }
Spread(c, d) ==
    [f \in DOMAIN c \cup DOMAIN d |-> IF f \in DOMAIN d THEN d[f] ELSE c[f]]

\* a || b of two optional string fields of c: a record holding the value under
\* key, empty when the value is undefined (JSON.stringify drops it)
Either(c, a, b, key) ==
    IF Has(c, a) THEN [k \in {key} |-> c[a]]
    ELSE IF b \in DOMAIN c THEN [k \in {key} |-> c[b]]
    ELSE IF a \in DOMAIN c THEN [k \in {key} |-> c[a]]
    ELSE <<>>

\* an optional field of c under the same name, empty when c has none
Field(c, f) == IF f \in DOMAIN c THEN [k \in {f} |-> c[f]] ELSE <<>>

\* savedConfig?.selectedModel || llmConfig.predefinedModels[0].id
SelectedModelOf(savedConfig, llmConfig) ==
    IF Has(savedConfig, "selectedModel") THEN savedConfig.selectedModel
    ELSE llmConfig.predefinedModels[1].id

\* the same with no record taken for one
IsPersistedNever(item) == FALSE

\* the saved record is one getLLMConfig(false) returns without a prompt
IsPersisted(item) == item # NoItem /\ item # Garbage /\ Has(item, "baseUrl") /\ Has(item, "apiKey")

\* the same with the catalog's first model always selected
PersistedConfigFirstModel(savedConfig, llmConfig) ==
    [baseURL |-> savedConfig.baseUrl,
     baseUrl |-> savedConfig.baseUrl,
     apiKey |-> savedConfig.apiKey,
     models |-> llmConfig.predefinedModels,
     selectedModel |-> llmConfig.predefinedModels[1].id]

\* the config of the persisted path
PersistedConfig(savedConfig, llmConfig) ==
    [baseURL |-> savedConfig.baseUrl,
     baseUrl |-> savedConfig.baseUrl,
     apiKey |-> savedConfig.apiKey,
     models |-> llmConfig.predefinedModels,
     selectedModel |-> SelectedModelOf(savedConfig, llmConfig)]

\* JSON.parse(savedData)
ParseItem(item) ==
    IF item = Garbage THEN [threw |-> TRUE, value |-> NullConfig]
    ELSE [threw |-> FALSE, value |-> item]

\* the same without the try and catch around it
TryParseUncaught(item) == ParseItem(item)

\* try { savedConfig = JSON.parse(savedData) } catch (e) { }
TryParse(item) ==
    IF ParseItem(item).threw THEN [threw |-> FALSE, value |-> NullConfig]
    ELSE ParseItem(item)

\* savedConfig after the read of storage: the parsed item, null when there is
\* none, when it is not JSON, or when the prompt is forced
SavedConfigOf(item, forceShow) ==
    IF item = NoItem \/ forceShow THEN NullConfig ELSE TryParse(item).value

\* catch (error): TRUE when the error is thrown again, FALSE when null is
\* returned
RethrowsAll(message) == TRUE

\* the same with every error swallowed
RethrowsNone(message) == FALSE

\* error.message === 'cancelled' returns null; any other error is thrown again
Rethrows(message) == message # "cancelled"

\* the whole returned config saved
ConfigToSaveAll(c, savedConfig, llmConfig) ==
    Spread(c, [models |-> llmConfig.predefinedModels,
               selectedModel |-> SelectedModelOf(savedConfig, llmConfig)])

\* the endpoint and the key written over the record storage holds
ConfigToSaveOver(c, savedConfig, llmConfig) ==
    Spread(Spread([selectedModel |-> SelectedModelOf(savedConfig, llmConfig)],
                  IF storage = NoItem \/ storage = Garbage THEN <<>> ELSE storage),
           Spread(Either(c, "baseURL", "baseUrl", "baseUrl"), Field(c, "apiKey")))

\* JSON.stringify(configToSave) of a config the prompt gave
ConfigToSave(c, savedConfig, llmConfig) ==
    Spread(Spread(Either(c, "baseURL", "baseUrl", "baseUrl"), Field(c, "apiKey")),
           [selectedModel |-> SelectedModelOf(savedConfig, llmConfig)])

\* { ...config, models, selectedModel }
PromptedConfig(c, savedConfig, llmConfig) ==
    Spread(c, [models |-> llmConfig.predefinedModels,
               selectedModel |-> SelectedModelOf(savedConfig, llmConfig)])

(***************************************************************************)
(* The App component.                                                      *)
(***************************************************************************)
\* the most generations the App starts
MaxGenerations == 1

\* the body the server answers a generation of the App with
AppStreams == {Body(<<LineHi>>)}

NewApp ==
    [config |-> NullConfig, hasFile |-> FALSE, csvContent |-> "",
     configLoading |-> TRUE, isGenerating |-> FALSE, error |-> ""]

\* the App is mounted: nothing is loaded and no call is in flight
AppMounted ==
    /\ config = NullConfig
    /\ stream = <<>>
    /\ pc = "none"
    /\ llmConfigCache = NoCatalog
    /\ configCache = NoCatalog
    /\ requests = <<>>
    /\ response = NoResponse
    /\ reader = "none"
    /\ releases = 0
    /\ readCalled = FALSE
    /\ pos = 0
    /\ decoder = NewTextDecoder
    /\ buffer = <<>>
    /\ lines = <<>>
    /\ emitted = <<>>
    /\ ended = "no"
    /\ error = NoError
    /\ fullText = <<>>
    /\ result = NoResult
    /\ app = NewApp
    /\ storage \in InitialItems
    /\ effect = "start"
    /\ resolver = NoResolver
    /\ generations = 0
    /\ second = NoSecond /\ demo = NoDemo

InitApp == AppMounted /\ lastCall = NoCall

\* no write of storage yet
NoWrite == [by |-> "none"]

\* the App is mounted, and the operations it completes are recorded
InitSettings == AppMounted /\ lastCall = [op |-> "mount", write |-> NoWrite]

\* the record of the operation the App completed last, where one is kept, with
\* the last write of storage carried over when r has none
Kept(r) == IF lastCall = NoCall THEN NoCall ELSE Spread(lastCall, r)

\* const configured = isConfigured(config)
configured == isConfigured(app.config)

\* const canGenerate = configured && hasFile && !isGenerating
canGenerate == configured /\ app.hasFile /\ ~app.isGenerating

\* getLLMConfig(forceShow) is called, up to the first await: getLLMConfigCached
\* returns the module's cache, or loadConfig returns config.ts's, or config.json
\* is fetched
CallGetLLMConfig(forceShow) ==
    [st |-> "catalog", forceShow |-> forceShow,
     load |-> IF llmConfigCache # NoCatalog THEN "cached"
              ELSE IF configCache # NoCatalog THEN "config" ELSE "fetch"]

\* what the call in progress has done, for the record of a direct call; no
\* other writer of storage runs during a direct call, so that storage is read
\* here as it was before the call
Outcome(call, ret, threw, cause, prompt, answer, llmConfig) ==
    [op |-> "getLLMConfig", forceShow |-> call.forceShow, before |-> storage,
     saved |-> IF "savedConfig" \in DOMAIN call THEN call.savedConfig ELSE NullConfig,
     fetched |-> call.load = "fetch", prompted |-> call.st = "prompt",
     prompt |-> prompt, answer |-> answer, catalog |-> llmConfig,
     ret |-> ret, threw |-> threw, cause |-> cause]

\* the same without the test of newConfig
AfterConfigureUntested(a, out) ==
    IF out.threw
    THEN [a EXCEPT !.error = "Failed to configure API. Please try again."]
    ELSE [a EXCEPT !.config = out.ret, !.error = ""]

\* handleConfigureClick after await showLLMConfigModal(): the state of the App a
\* it leaves
AfterConfigure(a, out) ==
    IF out.threw
    THEN [a EXCEPT !.error = "Failed to configure API. Please try again."]
    ELSE IF IsNull(out.ret) THEN a
    ELSE [a EXCEPT !.config = out.ret, !.error = ""]

\* the write of storage a call of getLLMConfig made, if it made one: what the
\* prompt gave, the savedConfig and the catalog it had, and whether
\* handleModelChange wrote last while it was at the prompt
WriteOf(caller, out) ==
    IF out.prompt # "resolved" \/ lastCall = NoCall THEN <<>>
    ELSE [write |-> [by |-> "getLLMConfig", answer |-> out.answer, saved |-> out.saved,
                     catalog |-> out.catalog,
                     raced |-> /\ lastCall.write.by = "handleModelChange"
                               /\ caller \in lastCall.write.inFlight]]

\* what the caller of getLLMConfig does with what it returns (out.ret) or throws
\* (out.threw): the rest of the load effect, or of handleConfigureClick; a
\* direct call is recorded with the storage it leaves (after)
Continue(caller, out, after) ==
    IF caller = "load"
    THEN /\ app' = [app EXCEPT !.config = IF out.threw THEN @ ELSE out.ret,
                               !.configLoading = FALSE]
         /\ effect' = "done"
         /\ lastCall' = Kept(Spread([op |-> "load"], WriteOf(caller, out)))
    ELSE IF caller = "click"
    THEN /\ app' = AfterConfigure(app, out)
         /\ lastCall' = Kept(Spread([op |-> IF out.threw THEN "configureFailed"
                                            ELSE IF out.prompt = "cancelled" THEN "cancel"
                                            ELSE "configure"],
                                    WriteOf(caller, out)))
         /\ UNCHANGED effect
    ELSE /\ lastCall' = Spread(out, [after |-> after])
         /\ UNCHANGED <<app, effect>>

\* the effect starts: await getAppConfig()
EffectStart ==
    /\ effect = "start"
    /\ effect' = "appConfig"
    /\ UNCHANGED <<callVars, app, storage, resolver, generations, second, demo, lastCall>>

\* getAppConfig() resolves with config.json fetched, and getLLMConfig(false) is
\* called
EffectAppConfig ==
    /\ effect = "appConfig"
    /\ effect' = "llmConfig"
    /\ \E cat \in AppCatalogs : configCache' = cat
    /\ resolver' = [resolver EXCEPT !["load"] =
                       [CallGetLLMConfig(FALSE) EXCEPT
                           !.load = IF llmConfigCache # NoCatalog THEN "cached" ELSE "config"]]
    /\ UNCHANGED <<config, stream, pc, llmConfigCache, requests, response, reader, releases,
                   readCalled, pos, decoder, buffer, lines, emitted, ended, error, fullText,
                   result, app, storage, generations, second, demo, lastCall>>

\* getAppConfig() rejects: catch, then finally
EffectAppConfigFails ==
    /\ effect = "appConfig"
    /\ effect' = "done"
    /\ app' = [app EXCEPT !.configLoading = FALSE]
    /\ lastCall' = Kept([op |-> "load"])
    /\ UNCHANGED <<callVars, storage, resolver, generations, second, demo>>

\* the Configure button: showLLMConfigModal() is getLLMConfig(true)
handleConfigureClick ==
    /\ app # NoApp
    /\ resolver["click"].st = "idle"
    /\ resolver' = [resolver EXCEPT !["click"] = CallGetLLMConfig(TRUE)]
    /\ UNCHANGED <<callVars, app, storage, effect, generations, second, demo, lastCall>>

\* getLLMConfig(forceShow) is called directly, no other call being in progress
getLLMConfig ==
    /\ app = NoApp
    /\ resolver["call"].st = "idle"
    /\ \E forceShow \in BOOLEAN :
          resolver' = [resolver EXCEPT !["call"] = CallGetLLMConfig(forceShow)]
    /\ UNCHANGED <<callVars, app, storage, effect, generations, second, demo, lastCall>>

\* getLLMConfig after await getLLMConfigCached(): the read of storage, and the
\* persisted path or the call of openaiConfig
GetLLMConfigRead(caller) ==
    /\ resolver[caller].st = "catalog"
    /\ \E cat \in IF resolver[caller].load = "fetch" THEN CatalogsFor(caller)
                   ELSE {configCache} :
          /\ llmConfigCache' = IF resolver[caller].load = "cached" THEN llmConfigCache ELSE cat
          /\ configCache' = cat
    /\ LET call == resolver[caller]
           forceShow == call.forceShow
           parsed == TryParse(storage)
           savedConfig == SavedConfigOf(storage, forceShow)
       IN  IF storage # NoItem /\ ~forceShow /\ parsed.threw
           THEN /\ resolver' = [resolver EXCEPT ![caller] = [st |-> "idle"]]
                /\ Continue(caller, Outcome(call, NullConfig, Rethrows("Unexpected token"),
                                            "storage", "none", NullConfig, llmConfigCache'), storage)
           ELSE IF ~forceShow /\ IsPersisted(storage)
           THEN /\ resolver' = [resolver EXCEPT ![caller] = [st |-> "idle"]]
                /\ Continue(caller, Outcome(call, PersistedConfig(savedConfig, llmConfigCache'),
                                            FALSE, "none", "none", NullConfig, llmConfigCache'), storage)
           ELSE /\ resolver' = [resolver EXCEPT ![caller] =
                                   Spread(call, [st |-> "prompt", savedConfig |-> savedConfig])]
                /\ UNCHANGED <<app, effect, lastCall>>
    /\ UNCHANGED <<config, stream, pc, requests, response, reader, releases, readCalled,
                   pos, decoder, buffer, lines, emitted, ended, error, fullText, result,
                   storage, generations, second, demo>>

\* await getLLMConfigCached() rejects, config.json not being loaded: the error
\* is rethrown
GetLLMConfigCatalogFails(caller) ==
    /\ resolver[caller].st = "catalog"
    /\ resolver[caller].load = "fetch"
    /\ resolver' = [resolver EXCEPT ![caller] = [st |-> "idle"]]
    /\ Continue(caller, Outcome(resolver[caller], NullConfig,
                                Rethrows("Failed to load application configuration"),
                                "catalog", "none", NullConfig, NoCatalog), storage)
    /\ UNCHANGED <<callVars, storage, generations, second, demo>>

\* openaiConfig resolves with a config: it is saved and returned
PromptResolve(caller) ==
    /\ resolver[caller].st = "prompt"
    /\ \E c \in PromptConfigsFor(caller) :
          /\ storage' = ConfigToSave(c, resolver[caller].savedConfig, llmConfigCache)
          /\ Continue(caller,
                      Outcome(resolver[caller],
                              PromptedConfig(c, resolver[caller].savedConfig, llmConfigCache),
                              FALSE, "none", "resolved", c, llmConfigCache),
                      storage')
    /\ resolver' = [resolver EXCEPT ![caller] = [st |-> "idle"]]
    /\ UNCHANGED <<callVars, generations, second, demo>>

\* openaiConfig rejects with 'cancelled': null is returned
PromptCancel(caller) ==
    /\ resolver[caller].st = "prompt"
    /\ resolver' = [resolver EXCEPT ![caller] = [st |-> "idle"]]
    /\ Continue(caller, Outcome(resolver[caller], NullConfig, Rethrows("cancelled"),
                                "prompt", "cancelled", NullConfig, llmConfigCache), storage)
    /\ UNCHANGED <<callVars, storage, generations, second, demo>>

\* openaiConfig rejects with another error: it is rethrown
PromptFails(caller) ==
    /\ resolver[caller].st = "prompt"
    /\ resolver' = [resolver EXCEPT ![caller] = [st |-> "idle"]]
    /\ Continue(caller, Outcome(resolver[caller], NullConfig, Rethrows("failed"),
                                "prompt", "failed", NullConfig, llmConfigCache), storage)
    /\ UNCHANGED <<callVars, storage, generations, second, demo>>

\* the same reading the endpoint under baseURL only
ModelChangeOneSpelling(modelId, currentConfig, throws) ==
    IF IsNull(currentConfig) THEN <<>>
    ELSE LET updatedConfig == Spread(currentConfig, [selectedModel |-> modelId])
         IN  IF throws
             THEN [error |-> "Failed to save model selection"]
             ELSE [item |-> Spread(Spread(Field(updatedConfig, "baseURL"),
                                          Field(updatedConfig, "apiKey")),
                                   [selectedModel |-> modelId]),
                   config |-> updatedConfig]

\* the same with the state set before the record is saved
ModelChangeSetsFirst(modelId, currentConfig, throws) ==
    IF IsNull(currentConfig) THEN <<>>
    ELSE LET updatedConfig == Spread(currentConfig, [selectedModel |-> modelId])
         IN  IF throws
             THEN [error |-> "Failed to save model selection", config |-> updatedConfig]
             ELSE [item |-> Spread(Spread(Either(updatedConfig, "baseURL", "baseUrl", "baseUrl"),
                                          Field(updatedConfig, "apiKey")),
                                   [selectedModel |-> modelId]),
                   config |-> updatedConfig]

\* the same with a failed write passed over in silence
ModelChangeSilent(modelId, currentConfig, throws) ==
    IF IsNull(currentConfig) \/ throws THEN <<>>
    ELSE LET updatedConfig == Spread(currentConfig, [selectedModel |-> modelId])
         IN  [item |-> Spread(Spread(Either(updatedConfig, "baseURL", "baseUrl", "baseUrl"),
                                     Field(updatedConfig, "apiKey")),
                              [selectedModel |-> modelId]),
              config |-> updatedConfig]

\* handleModelChange(modelId, currentConfig): the item written, the config set
\* and the error set, each only if it is; throws tells whether
\* localStorage.setItem throws
ModelChange(modelId, currentConfig, throws) ==
    IF IsNull(currentConfig) THEN <<>>
    ELSE LET updatedConfig == Spread(currentConfig, [selectedModel |-> modelId])
             configToSave ==
                 Spread(Spread(Either(updatedConfig, "baseURL", "baseUrl", "baseUrl"),
                               Field(updatedConfig, "apiKey")),
                        [selectedModel |-> modelId])
         IN  IF throws
             THEN [error |-> "Failed to save model selection"]
             ELSE [item |-> configToSave, config |-> updatedConfig]

\* the ids of a list of models
Ids(models) == {models[i].id : i \in 1..Len(models)}

\* the model select of the ConfigPanel, shown when configured: the record is
\* saved, and the state set if setItem did not throw
handleModelChange ==
    /\ app # NoApp
    /\ configured
    /\ \E modelId \in Ids(app.config.models), throws \in BOOLEAN :
          \E r \in {ModelChange(modelId, app.config, throws)} :
             /\ storage' = IF "item" \in DOMAIN r THEN r.item ELSE storage
             /\ app' = [app EXCEPT !.config = IF "config" \in DOMAIN r THEN r.config ELSE @,
                                   !.error = IF "error" \in DOMAIN r THEN r.error ELSE @]
             /\ lastCall' =
                   Kept(IF "item" \in DOMAIN r
                        THEN [op |-> "modelChange",
                              write |-> [by |-> "handleModelChange", modelId |-> modelId,
                                         currentConfig |-> app.config,
                                         inFlight |-> {c \in {"load", "click"} :
                                                          resolver[c].st = "prompt"}]]
                        ELSE [op |-> "modelChangeFailed"])
    /\ UNCHANGED <<callVars, effect, resolver, generations, second, demo>>

\* handleModelChange(modelId, currentConfig) is called directly, with null and
\* with configs of either spelling of the endpoint
CallHandleModelChange ==
    /\ app = NoApp
    /\ resolver["call"].st = "idle"
    /\ \E modelId \in {"m1", "m2"}, throws \in BOOLEAN,
          currentConfig \in
             {NullConfig,
              [baseURL |-> "https://p", baseUrl |-> "https://p", apiKey |-> "k",
               models |-> DefaultCatalog.predefinedModels, selectedModel |-> "m2"],
              [baseUrl |-> "https://q", apiKey |-> "k2",
               models |-> DefaultCatalog.predefinedModels, selectedModel |-> "m1"],
              [baseURL |-> "https://p", apiKey |-> "k"]} :
          \E r \in {ModelChange(modelId, currentConfig, throws)} :
             /\ storage' = IF "item" \in DOMAIN r THEN r.item ELSE storage
             /\ lastCall' = [op |-> "handleModelChange", modelId |-> modelId,
                             currentConfig |-> currentConfig, throws |-> throws,
                             before |-> storage, after |-> storage',
                             effects |-> r]
    /\ UNCHANGED <<callVars, app, effect, resolver, generations, second, demo>>

\* getAvailableModels(config), given the catalog
AvailableModels(c, llmConfig) ==
    IF ~IsNull(c) /\ "models" \in DOMAIN c THEN c.models ELSE llmConfig.predefinedModels

\* the first provider of the catalog with the url, by the characters of the
\* url's beginning
FindByPrefix(providers, url) ==
    {i \in 1..Len(providers) : StartsWith(UrlText(url), UrlText(providers[i].url))}

\* llmConfig.providers.find(p => p.url === baseURL): the positions that match
Find(providers, url) == {i \in 1..Len(providers) : providers[i].url = url}

\* provider?.name || 'Custom Provider'
ProviderName(url, llmConfig) ==
    LET found == Find(llmConfig.providers, url)
    IN  IF found = {} THEN "Custom Provider"
        ELSE LET provider == llmConfig.providers[CHOOSE i \in found : \A j \in found : i <= j]
             IN  IF provider.name # "" THEN provider.name ELSE "Custom Provider"

\* await getLLMConfigCached(), in one step: the results it may have, each with
\* the caches it leaves
CatalogLoads ==
    IF llmConfigCache # NoCatalog
    THEN {[ok |-> TRUE, llm |-> llmConfigCache, config |-> configCache]}
    ELSE IF configCache # NoCatalog
    THEN {[ok |-> TRUE, llm |-> configCache, config |-> configCache]}
    ELSE {[ok |-> TRUE, llm |-> cat, config |-> cat] : cat \in Catalogs}
         \cup {[ok |-> FALSE, llm |-> NoCatalog, config |-> NoCatalog]}

\* the configs getAvailableModels is called with directly
LookupConfigs ==
    {NullConfig,
     [baseURL |-> "https://p", apiKey |-> "k"],
     [baseURL |-> "https://p", apiKey |-> "k", models |-> <<[id |-> "m7"]>>],
     [baseURL |-> "https://p", apiKey |-> "k", models |-> <<>>]}

\* getAvailableModels(config) is called directly, and settles
CallGetAvailableModels ==
    /\ app = NoApp
    /\ resolver["call"].st = "idle"
    /\ \E c \in LookupConfigs :
          IF ~IsNull(c) /\ "models" \in DOMAIN c
          THEN /\ lastCall' = [op |-> "getAvailableModels", config |-> c, threw |-> FALSE,
                               catalog |-> llmConfigCache,
                               ret |-> AvailableModels(c, llmConfigCache)]
               /\ UNCHANGED <<llmConfigCache, configCache>>
          ELSE \E l \in CatalogLoads :
                  /\ llmConfigCache' = l.llm
                  /\ configCache' = l.config
                  /\ lastCall' = [op |-> "getAvailableModels", config |-> c,
                                  threw |-> ~l.ok, catalog |-> l.llm,
                                  ret |-> IF l.ok THEN AvailableModels(c, l.llm) ELSE <<>>]
    /\ UNCHANGED <<config, stream, pc, requests, response, reader, releases, readCalled,
                   pos, decoder, buffer, lines, emitted, ended, error, fullText, result,
                   app, storage, effect, resolver, generations, second, demo>>

\* the same with config.json fetched at every call
LoadConfigUncached(cache) ==
    {[ok |-> TRUE, fetched |-> TRUE, cache |-> cat] : cat \in Catalogs}
    \cup {[ok |-> FALSE, fetched |-> TRUE, cache |-> cache]}

\* loadConfig(), in one step: the results it may have, each with the configCache
\* it leaves and whether config.json was fetched; it throws (ok is FALSE) when
\* the status is not ok or the fetch fails
LoadConfig(cache) ==
    IF cache # NoCatalog
    THEN {[ok |-> TRUE, fetched |-> FALSE, cache |-> cache]}
    ELSE {[ok |-> TRUE, fetched |-> TRUE, cache |-> cat] : cat \in Catalogs}
         \cup {[ok |-> FALSE, fetched |-> TRUE, cache |-> cache]}

\* loadConfig() is called directly, and settles
CallLoadConfig ==
    /\ app = NoApp
    /\ resolver["call"].st = "idle"
    /\ \E l \in LoadConfig(configCache) :
          /\ configCache' = l.cache
          /\ lastCall' = [op |-> "loadConfig", before |-> configCache, fetched |-> l.fetched,
                          threw |-> ~l.ok, ret |-> IF l.ok THEN l.cache ELSE NoCatalog,
                          after |-> configCache']
    /\ UNCHANGED <<config, stream, pc, llmConfigCache, requests, response, reader, releases,
                   readCalled, pos, decoder, buffer, lines, emitted, ended, error, fullText,
                   result, app, storage, effect, resolver, generations, second, demo>>

\* clearConfigCache() is called directly
clearConfigCache ==
    /\ app = NoApp
    /\ resolver["call"].st = "idle"
    /\ configCache' = NoCatalog
    /\ lastCall' = [op |-> "clearConfigCache", before |-> configCache, after |-> configCache']
    /\ UNCHANGED <<config, stream, pc, llmConfigCache, requests, response, reader, releases,
                   readCalled, pos, decoder, buffer, lines, emitted, ended, error, fullText,
                   result, app, storage, effect, resolver, generations, second, demo>>

\* the model of the request in the copy of the module that carries its own
\* catalog: config.selectedModel || config.models?.[0] || "google/gemini-2.5-flash",
\* as the value JSON.stringify writes into the body
ModelOfFirstEntry(c) ==
    IF Has(c, "selectedModel") THEN [t |-> "str", v |-> c.selectedModel]
    ELSE IF "models" \in DOMAIN c /\ Len(c.models) > 0 THEN [t |-> "obj", v |-> c.models[1]]
    ELSE [t |-> "str", v |-> "google/gemini-2.5-flash"]

\* generateResponseStream(config, prompt) of either copy of the module is
\* called directly and pulled once, up to the fetch: the model of the request
\* body, with the id of the first model of the catalog the copy has
CallGenerateResponseStream ==
    /\ app = NoApp
    /\ resolver["call"].st = "idle"
    /\ \E c \in {x \in Configs \cup LookupConfigs : ConfigError(x) = NoError} :
          \/ /\ lastCall' = [op |-> "generateResponseStream", copy |-> "own catalog",
                             config |-> c, threw |-> FALSE,
                             first |-> "google/gemini-2.5-flash",
                             model |-> ModelOfFirstEntry(c)]
             /\ UNCHANGED <<llmConfigCache, configCache>>
          \/ \E l \in CatalogLoads :
                /\ llmConfigCache' = l.llm
                /\ configCache' = l.config
                /\ lastCall' = [op |-> "generateResponseStream", copy |-> "config.json",
                                config |-> c, threw |-> ~l.ok,
                                first |-> IF l.ok THEN l.llm.predefinedModels[1].id ELSE "",
                                model |-> IF l.ok THEN [t |-> "str", v |-> ModelOf(c, l.llm)]
                                          ELSE Undefined]
    /\ UNCHANGED <<config, stream, pc, requests, response, reader, releases, readCalled,
                   pos, decoder, buffer, lines, emitted, ended, error, fullText, result,
                   app, storage, effect, resolver, generations, second, demo>>

\* getProviderName(baseURL) is called directly, and settles
CallGetProviderName ==
    /\ app = NoApp
    /\ resolver["call"].st = "idle"
    /\ \E url \in {"https://p", "https://q", "https://p/v1", ""}, l \in CatalogLoads :
          /\ llmConfigCache' = l.llm
          /\ configCache' = l.config
          /\ lastCall' = [op |-> "getProviderName", url |-> url, threw |-> ~l.ok,
                          catalog |-> l.llm,
                          ret |-> IF l.ok THEN ProviderName(url, l.llm) ELSE ""]
    /\ UNCHANGED <<config, stream, pc, requests, response, reader, releases, readCalled,
                   pos, decoder, buffer, lines, emitted, ended, error, fullText, result,
                   app, storage, effect, resolver, generations, second, demo>>

\* the FileUpload, enabled when configured, idle and loaded
handleFileUpload ==
    /\ app # NoApp
    /\ configured /\ ~app.isGenerating /\ ~app.configLoading
    /\ \E content \in {"", "a,b"} :
          app' = [app EXCEPT !.hasFile = TRUE, !.csvContent = content, !.error = ""]
    /\ UNCHANGED <<callVars, storage, effect, resolver, generations, second, demo, lastCall>>

\* generateScrollytelling of the useLLMGeneration hook: a generation with the
\* hook's config starts, the server being about to answer with body s
BeginGeneration(a, s) ==
    /\ config' = a.config
    /\ stream' = s
    /\ pc' = "idle"
    /\ response' = NoResponse
    /\ reader' = "none"
    /\ releases' = 0
    /\ readCalled' = FALSE
    /\ pos' = 0
    /\ decoder' = NewTextDecoder
    /\ buffer' = <<>>
    /\ lines' = <<>>
    /\ emitted' = <<>>
    /\ ended' = "no"
    /\ error' = NoError
    /\ fullText' = <<>>
    /\ result' = NoResult
    /\ app' = [a EXCEPT !.isGenerating = TRUE]
    /\ generations' = generations + 1
    /\ UNCHANGED <<llmConfigCache, configCache, requests, lastCall, second, demo>>

\* the buttons of the GenerationPanel, shown when there is a file:
\* handleGenerate and handleRefactor
handleGenerate ==
    /\ app # NoApp
    /\ app.hasFile
    /\ generations < MaxGenerations
    /\ canGenerate /\ app.csvContent # ""
    /\ \E s \in AppStreams : BeginGeneration(app, s)
    /\ UNCHANGED <<storage, effect, resolver>>

\* 'Use This Dataset' of the DemoCards, shown when configured, loaded and
\* without a file, and not disabled
handleLoadDemo ==
    /\ app # NoApp
    /\ configured /\ ~app.hasFile /\ ~app.configLoading /\ ~app.isGenerating
    /\ generations < MaxGenerations
    /\ LET a == [app EXCEPT !.hasFile = TRUE, !.csvContent = "demo", !.error = ""]
       IN  IF configured
           THEN \E s \in AppStreams : BeginGeneration(a, s)
           ELSE app' = a /\ UNCHANGED <<callVars, generations, second, demo, lastCall>>
    /\ UNCHANGED <<storage, effect, resolver>>

\* the generation is over: the hook is idle again
GenerationEnds ==
    /\ app # NoApp
    /\ pc \in {"done", "failed"}
    /\ app.isGenerating
    /\ app' = [app EXCEPT !.isGenerating = FALSE,
                          !.error = IF pc = "failed" THEN error.msg ELSE @]
    /\ pc' = "none"
    /\ UNCHANGED <<config, stream, llmConfigCache, configCache, requests, response, reader, releases,
                   readCalled, pos, decoder, buffer, lines, emitted, ended, error, fullText,
                   result, storage, effect, resolver, generations, second, demo, lastCall>>

Next ==
    \/ Start
    \/ CatalogResolve
    \/ CatalogReject
    \/ FetchResolve
    \/ FetchReject
    \/ ReadChunk
    \/ ReadDone
    \/ ReadReject
    \/ Consume

Spec == Init /\ [][Next]_vars

SpecDecode == InitDecode /\ [][Next]_vars

\* Weak fairness of the steps taken at a position, WF_vars(A) for the actions A
\* whose guard is pc = at, with ENABLED <<A>>_vars written as that guard: every
\* state at such a position has a step that leaves it changed, and under
\* [][Next]_vars a changing step from the position is a step of A.
FairAt(at) == []<>(pc # at) \/ []<><<pc = at>>_vars

\* the same where the call is made, every await settles (the catalog, the
\* fetch, and each reader.read(): ReadChunk, ReadDone or ReadReject) and
\* generateResponse's for await loop asks for the next fragment after each one
\* (Consume)
SpecLive ==
    /\ InitDecode
    /\ [][Next]_vars
    /\ WF_vars(Start)
    /\ WF_vars(CatalogResolve \/ CatalogReject)
    /\ WF_vars(FetchResolve \/ FetchReject)
    /\ FairAt("awaitRead")
    /\ FairAt("yielded")

\* the App and the generations it starts. A generation starts after
\* getLLMConfig has loaded the catalog, so getLLMConfigCached() resolves from
\* the cache
NextApp ==
    \/ EffectStart
    \/ EffectAppConfig
    \/ EffectAppConfigFails
    \/ handleConfigureClick
    \/ \E caller \in {"load", "click"} : GetLLMConfigRead(caller)
    \/ \E caller \in {"load", "click"} : GetLLMConfigCatalogFails(caller)
    \/ \E caller \in {"load", "click"} : PromptResolve(caller)
    \/ \E caller \in {"load", "click"} : PromptCancel(caller)
    \/ \E caller \in {"load", "click"} : PromptFails(caller)
    \/ handleModelChange
    \/ handleFileUpload
    \/ handleGenerate
    \/ handleLoadDemo
    \/ GenerationEnds
    \/ Start
    \/ CatalogResolve
    \/ FetchResolve
    \/ FetchReject
    \/ ReadChunk
    \/ ReadDone
    \/ ReadReject
    \/ Consume

SpecApp == InitApp /\ [][NextApp]_vars

(***************************************************************************)
(* Two calls of generateResponseStream at once. The first is the call      *)
(* above, consumed by generateResponse; the second is consumed by a caller *)
(* of its own, which may stop pulling, and is followed from the reader on. *)
(* Each call has its own response, reader, decoder, buffer and lines: they *)
(* are locals of the generator.                                            *)
(***************************************************************************)
\* the second call as its first reader.read() is awaited, the server answering
\* it with body s: one pull made, one read issued
SecondCall(s) ==
    [stream |-> s, pc |-> "awaitRead", reader |-> "locked", releases |-> 0, pos |-> 0,
     decoder |-> NewTextDecoder, buffer |-> <<>>, lines |-> <<>>, emitted |-> <<>>,
     ended |-> "no", pulls |-> 1, reads |-> 1]

\* the call o ends: the finally block runs
Ended(o, how) ==
    [o EXCEPT !.pc = IF how = "error" THEN "failed" ELSE "done",
              !.ended = how,
              !.releases = @ + FinallyReleases(
                               CASE how = "eof" -> "break"
                                 [] how \in {"sentinel", "return"} -> "return"
                                 [] OTHER -> "throw"),
              !.reader = "released"]

\* the call o after its for loop has run over lines as r tells (RunLines): at
\* its next yield, ended by the sentinel, or at the next reader.read()
AfterLines(o, r) ==
    CASE r.kind = "yield" ->
           [o EXCEPT !.lines = r.rest, !.emitted = Append(@, r.content), !.pc = "yielded"]
      [] r.kind = "return" -> Ended([o EXCEPT !.lines = r.rest], "sentinel")
      [] OTHER -> [o EXCEPT !.lines = r.rest, !.pc = "awaitRead", !.reads = @ + 1]

\* the same with a buffer that is the module's, not the call's
SecondReadSharedBuffer ==
    /\ second.pc = "awaitRead"
    /\ \E k \in {k \in 1..(Len(second.stream) - second.pos) :
                    k = Len(second.stream) - second.pos \/ k \in {20, 23}} :
       \E d \in {decoder_decode(second.decoder,
                                SubSeq(second.stream, second.pos + 1, second.pos + k))} :
       \E ls \in {Split(buffer \o d.text)} :
       \E r \in {RunLines(CompleteLines(ls))} :
       \E o \in {[second EXCEPT !.pos = @ + k, !.decoder = d.st, !.buffer = lines_pop(ls)]} :
          second' = AfterLines(o, r)
    /\ UNCHANGED <<callVars, app, storage, effect, resolver, generations, lastCall, demo>>

\* the same, issued whether or not the consumer has asked for a fragment
SecondReadUnasked ==
    /\ second.pc \in {"awaitRead", "yielded", "stopped"}
    /\ second.reads < 4
    /\ second' = [second EXCEPT !.reads = @ + 1]
    /\ UNCHANGED <<callVars, app, storage, effect, resolver, generations, lastCall, demo>>

\* the second call's reader.read() settles: with a chunk (of one of a few
\* sizes, or all that is left), with done, or with an error
SecondRead ==
    /\ second.pc = "awaitRead"
    /\ \/ \E k \in {k \in 1..(Len(second.stream) - second.pos) :
                       k = Len(second.stream) - second.pos \/ k \in {20, 23}} :
          \E d \in {decoder_decode(second.decoder,
                                   SubSeq(second.stream, second.pos + 1, second.pos + k))} :
          \E ls \in {Split(second.buffer \o d.text)} :
          \E r \in {RunLines(CompleteLines(ls))} :
          \E o \in {[second EXCEPT !.pos = @ + k, !.decoder = d.st, !.buffer = lines_pop(ls)]} :
             second' = AfterLines(o, r)
       \/ /\ second.pos = Len(second.stream)
          /\ second' = Ended(second, "eof")
       \/ second' = Ended(second, "error")
    /\ UNCHANGED <<callVars, app, storage, effect, resolver, generations, lastCall, demo>>

\* the second call's consumer asks for the next fragment
SecondPull ==
    /\ second.pc = "yielded"
    /\ \E r \in {RunLines(second.lines)} :
          second' = AfterLines([second EXCEPT !.pulls = @ + 1], r)
    /\ UNCHANGED <<callVars, app, storage, effect, resolver, generations, lastCall, demo>>

\* the second call's consumer stops pulling: it leaves its loop, which calls the
\* generator's return(), or it just asks no more
SecondStop ==
    /\ second.pc = "yielded"
    /\ \/ second' = Ended(second, "return")
       \/ second' = [second EXCEPT !.pc = "stopped"]
    /\ UNCHANGED <<callVars, app, storage, effect, resolver, generations, lastCall, demo>>

NextPair ==
    \/ Start
    \/ CatalogResolve
    \/ CatalogReject
    \/ FetchResolve
    \/ FetchReject
    \/ ReadChunk
    \/ ReadDone
    \/ ReadReject
    \/ Consume
    \/ SecondRead
    \/ SecondPull
    \/ SecondStop

\* two configured calls, answered with different bodies
InitPair ==
    /\ \E s \in {Body(<<LineHi, LineDone>>), Body(<<LineHi>>) \o LineHi} :
          CallOf(GoodConfig, s)
    /\ demo = NoDemo
    /\ second \in {SecondCall(s) : s \in {Body(<<LineMultiByte, LineMultiByte>>),
                                          Body(<<LineMultiByte, LineDone, LineHi>>),
                                          Body(<<LineMultiByte>>) \o LineMultiByte}}

\* their steps interleaved in any order
SpecPair == InitPair /\ [][NextPair]_vars

(***************************************************************************)
(* The DemoCards component, for one demo. A handler reads the state of the  *)
(* render it was created in: after an await it still reads that state. Only *)
(* the truthiness of csvData[demo.id], htmlData[demo.id] and                *)
(* loading[demo.id] is read before they are set, so that undefined is ''    *)
(* and FALSE here.                                                          *)
(***************************************************************************)
\* the most fetches the component starts
MaxFetches == 3

\* the most clicks of 'Use This Dataset' that run to their end
MaxClicks == 2

\* csvContent.startsWith('Error'), for the texts there are
StartsWithError(s) == s \in {"Error loading CSV data", "Error,count"}

\* the component as it is first rendered
NewDemoCards(disabled) ==
    [rendered |-> TRUE, disabled |-> disabled, activeTab |-> "prompt",
     csvData |-> "", htmlData |-> "", loading |-> FALSE,
     pending |-> <<>>, started |-> 0, loaded |-> "none",
     onLoadDemo |-> <<>>, alerts |-> 0, last |-> [op |-> "none"]]

\* loadCsvData(demo) or loadHtmlData(demo) up to await fetch(...), called by a
\* handler of the render d with no data yet: loading is set, and the call is
\* in flight with the csvData its caller goes on with
StartLoad(d, call, by) ==
    [d EXCEPT !.loading = TRUE,
              !.started = @ + 1,
              !.pending = Append(@, [call |-> call, by |-> by, csvData |-> d.csvData])]

\* handleLoadDemo from const csvContent = csvData[demo.id] on: onLoadDemo is
\* called with the content, or the error is caught and alerted; info tells
\* what the click found and fetched
UseCsvContent(d, csvContent, info) ==
    IF csvContent = "" \/ StartsWithError(csvContent)
    THEN [d EXCEPT !.alerts = @ + 1,
                   !.last = Spread(info, [op |-> "handleLoadDemo", invoked |-> 0,
                                          content |-> ""])]
    ELSE [d EXCEPT !.onLoadDemo = Append(@, csvContent),
                   !.last = Spread(info, [op |-> "handleLoadDemo", invoked |-> 1,
                                          content |-> csvContent])]

\* a tab of the demo is clicked: handleTabClick(demo, tab)
DemoCards_handleTabClick ==
    /\ demo.rendered
    /\ \E tab \in {"prompt", "csv", "output"} :
          LET d == [demo EXCEPT !.activeTab = tab]
          IN  IF tab = "csv" /\ demo.csvData = ""
              THEN demo.started < MaxFetches /\ demo' = StartLoad(d, "loadCsvData", "handleTabClick")
              ELSE IF tab = "output" /\ demo.htmlData = ""
              THEN demo.started < MaxFetches /\ demo' = StartLoad(d, "loadHtmlData", "handleTabClick")
              ELSE demo' = d
    /\ UNCHANGED <<callVars, app, storage, effect, resolver, generations, lastCall, second>>

\* 'Use This Dataset' is clicked: handleLoadDemo(demo), up to its await or, with
\* the CSV loaded, to its end
DemoCards_handleLoadDemo ==
    /\ demo.rendered
    /\ demo.alerts + Len(demo.onLoadDemo) < MaxClicks
    /\ IF demo.disabled
       THEN demo' = [demo EXCEPT !.last = [op |-> "handleLoadDemo", disabled |-> TRUE,
                                           before |-> demo.loaded, fetch |-> "none",
                                           text |-> "", invoked |-> 0, content |-> ""]]
       ELSE IF demo.csvData = ""
       THEN demo.started < MaxFetches /\ demo' = StartLoad(demo, "loadCsvData", "handleLoadDemo")
       ELSE demo' = UseCsvContent(demo, demo.csvData,
                                  [disabled |-> FALSE, before |-> demo.loaded,
                                   fetch |-> "none", text |-> demo.csvData])
    /\ UNCHANGED <<callVars, app, storage, effect, resolver, generations, lastCall, second>>

\* a fetch in flight settles, with the text of the file or with a failure (a
\* status that is not ok, or a rejection): the rest of loadCsvData or
\* loadHtmlData, and of the handleLoadDemo that awaited it
LoadSettles ==
    /\ demo.rendered
    /\ \E i \in 1..Len(demo.pending), ok \in BOOLEAN, text \in {"id,count", "Error,count", ""} :
          LET p == demo.pending[i]
              rest == SubSeq(demo.pending, 1, i - 1) \o SubSeq(demo.pending, i + 1, Len(demo.pending))
              d == IF p.call = "loadCsvData"
                   THEN [demo EXCEPT !.csvData = IF ok THEN text ELSE "Error loading CSV data",
                                     !.loaded = IF ok THEN "ok" ELSE "failed",
                                     !.loading = FALSE,
                                     !.pending = rest]
                   ELSE [demo EXCEPT !.htmlData = IF ok THEN "<html>" ELSE "Error loading HTML file: ",
                                     !.loading = FALSE,
                                     !.pending = rest]
          IN  /\ p.call = "loadHtmlData" => text = ""
              /\ ~ok => text = ""
              /\ demo' = IF p.by = "handleLoadDemo"
                         THEN UseCsvContent(d, p.csvData,
                                            [disabled |-> FALSE, before |-> demo.loaded,
                                             fetch |-> IF ok THEN "ok" ELSE "failed",
                                             text |-> text])
                         ELSE d
    /\ UNCHANGED <<callVars, app, storage, effect, resolver, generations, lastCall, second>>

\* the component is rendered alone, enabled or disabled, with nothing loaded
InitDemo ==
    /\ config = NullConfig
    /\ stream = <<>>
    /\ pc = "none"
    /\ llmConfigCache = NoCatalog
    /\ configCache = NoCatalog
    /\ requests = <<>>
    /\ response = NoResponse
    /\ reader = "none"
    /\ releases = 0
    /\ readCalled = FALSE
    /\ pos = 0
    /\ decoder = NewTextDecoder
    /\ buffer = <<>>
    /\ lines = <<>>
    /\ emitted = <<>>
    /\ ended = "no"
    /\ error = NoError
    /\ fullText = <<>>
    /\ result = NoResult
    /\ app = NoApp
    /\ storage = NoItem
    /\ effect = "none"
    /\ resolver = NoResolver
    /\ generations = 0
    /\ lastCall = NoCall
    /\ second = NoSecond
    /\ demo \in {NewDemoCards(disabled) : disabled \in BOOLEAN}

NextDemo ==
    \/ DemoCards_handleTabClick
    \/ DemoCards_handleLoadDemo
    \/ LoadSettles

SpecDemo == InitDemo /\ [][NextDemo]_vars

\* the App's operations on the configuration alone, each one recorded when it
\* completes
NextSettings ==
    \/ EffectStart
    \/ EffectAppConfig
    \/ EffectAppConfigFails
    \/ handleConfigureClick
    \/ \E caller \in {"load", "click"} : GetLLMConfigRead(caller)
    \/ \E caller \in {"load", "click"} : GetLLMConfigCatalogFails(caller)
    \/ \E caller \in {"load", "click"} : PromptResolve(caller)
    \/ \E caller \in {"load", "click"} : PromptCancel(caller)
    \/ \E caller \in {"load", "click"} : PromptFails(caller)
    \/ handleModelChange

SpecSettings == InitSettings /\ [][NextSettings]_vars

\* the same with the load effect running on: each of its awaits settles, that
\* of the prompt included, which the user answers, dismisses or which fails;
\* nothing makes the user click
SpecStartUp ==
    /\ InitSettings /\ [][NextSettings]_vars
    /\ WF_vars(EffectStart)
    /\ WF_vars(EffectAppConfig \/ EffectAppConfigFails)
    /\ WF_vars(GetLLMConfigRead("load") \/ GetLLMConfigCatalogFails("load"))
    /\ WF_vars(PromptResolve("load") \/ PromptCancel("load") \/ PromptFails("load"))

\* no App is mounted and no generation runs: the exported functions of the
\* configuration are called directly, one after the other
InitConfig ==
    /\ config = NullConfig
    /\ stream = <<>>
    /\ pc = "none"
    /\ configCache \in Catalogs \cup {NoCatalog}
    /\ llmConfigCache \in {NoCatalog, configCache}
    /\ requests = <<>>
    /\ response = NoResponse
    /\ reader = "none"
    /\ releases = 0
    /\ readCalled = FALSE
    /\ pos = 0
    /\ decoder = NewTextDecoder
    /\ buffer = <<>>
    /\ lines = <<>>
    /\ emitted = <<>>
    /\ ended = "no"
    /\ error = NoError
    /\ fullText = <<>>
    /\ result = NoResult
    /\ app = NoApp
    /\ storage \in StoredItems
    /\ effect = "none"
    /\ resolver = NoResolver
    /\ generations = 0
    /\ lastCall = NoCall
    /\ second = NoSecond /\ demo = NoDemo

NextConfig ==
    \/ getLLMConfig
    \/ GetLLMConfigRead("call")
    \/ GetLLMConfigCatalogFails("call")
    \/ PromptResolve("call")
    \/ PromptCancel("call")
    \/ PromptFails("call")
    \/ CallHandleModelChange
    \/ CallGetAvailableModels
    \/ CallGetProviderName
    \/ CallGenerateResponseStream
    \/ CallLoadConfig
    \/ clearConfigCache

SpecConfig == InitConfig /\ [][NextConfig]_vars


(***************************************************************************)
(* What the decode is compared with.                                       *)
(***************************************************************************)
\* the fragments the for loop yields over ls, run to its end or to the sentinel
RECURSIVE YieldsOf(_)
YieldsOf(ls) ==
    LET r == RunLines(ls)
    IN  IF r.kind = "yield" THEN <<r.content>> \o YieldsOf(r.rest) ELSE <<>>

\* the fragments of a body delivered as one chunk
OneChunkFragments(s) ==
    YieldsOf(CompleteLines(Split((decoder_decode(NewTextDecoder, s).text))))

IsPrefix(a, b) == Len(a) <= Len(b) /\ SubSeq(b, 1, Len(a)) = a

\* the k-th smallest element of a set of numbers
Nth(S, k) == CHOOSE i \in S : Cardinality({j \in S : j <= i}) = k

\* the text of a body, and its newline-terminated lines
TextOf(s) == DecodeStream(NewTextDecoder, s).text
TerminatedLines(s) == LET all == Split(TextOf(s)) IN SubSeq(all, 1, Len(all) - 1)

\* a line 'data: ' + payload
IsDataLine(l) == Len(l) >= 6 /\ SubSeq(l, 1, 6) = DataPrefix
PayloadOf(l) == SubSeq(l, 7, Len(l))
IsDoneLine(l) == l = DataPrefix \o DoneSentinel

\* the lines before the first 'data: [DONE]' line
BeforeDone(ls) ==
    LET D == {i \in 1..Len(ls) : IsDoneLine(ls[i])}
    IN  IF D = {} THEN ls ELSE SubSeq(ls, 1, Nth(D, 1) - 1)

\* choices[0].delta.content of a payload that parses, Undefined if there is none
DeltaContent(payload) ==
    LET p == JSONParse(payload)
        choices == IF p.ok THEN Prop(p.val, KeyChoices) ELSE Undefined
        first == IF choices.t = "arr" /\ Len(choices.v) > 0 THEN choices.v[1] ELSE Undefined
    IN  Prop(Prop(first, KeyDelta), KeyContent)

\* the line carries a present, non-empty content
Carries(l) ==
    /\ IsDataLine(l)
    /\ JSONParse(PayloadOf(l)).ok
    /\ DeltaContent(PayloadOf(l)).t = "str"
    /\ DeltaContent(PayloadOf(l)).v # <<>>

\* the contents of the carrying lines of ls, in order
ContentsOf(ls) ==
    LET Q == {i \in 1..Len(ls) : Carries(ls[i])}
    IN  [k \in 1..Cardinality(Q) |-> DeltaContent(PayloadOf(ls[Nth(Q, k)]))]

\* the fragments the specification gives a body
ReferenceFragments(s) == ContentsOf(BeforeDone(TerminatedLines(s)))

\* a 'data: ' line that is neither the sentinel nor JSON
IsMalformed(l) == IsDataLine(l) /\ ~IsDoneLine(l) /\ ~JSONParse(PayloadOf(l)).ok

\* the body without its malformed lines (a newline byte is always a newline)
WithoutMalformed(s) ==
    LET all == Split(s)
        K == {i \in 1..Len(all) : i = Len(all) \/ ~IsMalformed(TextOf(all[i]))}
        RECURSIVE Join(_)
        Join(k) == IF k > Cardinality(K) THEN <<>>
                   ELSE all[Nth(K, k)] \o (IF k < Cardinality(K) THEN <<10>> ELSE <<>>)
                        \o Join(k + 1)
    IN  Join(1)

RECURSIVE ConcatAll(_)
ConcatAll(fs) == IF fs = <<>> THEN <<>> ELSE Head(fs).v \o ConcatAll(Tail(fs))


(***************************************************************************)
(* Properties of generateResponseStream and generateResponse.              *)
(***************************************************************************)

\* C1: chunk-boundary independence. However the body is split into chunks, the
\* fragments emitted so far are the first fragments of the delivery in one
\* chunk, and a decode that has ended has emitted exactly those fragments.
C1_ChunkIndependence ==
    /\ IsPrefix(emitted, OneChunkFragments(stream))
    /\ pc = "done" => emitted = OneChunkFragments(stream)

\* a chunk ended inside a two-byte character of a JSON line, after a fragment
C1_Witness ==
    /\ pc = "awaitRead"
    /\ decoder.need > 0
    /\ Len(emitted) = 1
    /\ IsDataLine(buffer)

\* C2: reference semantics. The emitted sequence is, in order and with nothing
\* added, the content of the newline-terminated 'data: ' lines before the first
\* 'data: [DONE]' line whose payload parses and carries a non-empty content;
\* every fragment is a non-empty string.
C2_ReferenceSemantics ==
    /\ IsPrefix(emitted, ReferenceFragments(stream))
    /\ pc = "done" => emitted = ReferenceFragments(stream)
    /\ \A i \in 1..Len(emitted) : emitted[i].t = "str" /\ emitted[i].v # <<>>

\* a decode that ended after two fragments and a line that contributed nothing
C2_Witness ==
    /\ pc = "done"
    /\ Len(emitted) = 2
    /\ \E l \in OtherLines : stream = Body(<<LineHi, l, LineMultiByte>>)

\* a complete 'data: [DONE]' line is among the bytes read so far
DoneDelivered ==
    \E i \in 1..Len(TerminatedLines(SubSeq(stream, 1, pos))) :
        IsDoneLine(TerminatedLines(SubSeq(stream, 1, pos))[i])

\* C3: sentinel termination. Once a complete line 'data: [DONE]' has been read,
\* no read() is issued any more: the loop is at most suspended at a yield of an
\* earlier line of that chunk, and when it reaches the sentinel the decode has
\* ended with the reader released, having emitted the fragments of the lines
\* before the sentinel only; from then on nothing is emitted or read.
C3_SentinelTermination ==
    /\ [](DoneDelivered =>
            /\ pc \in {"yielded", "done"}
            /\ pc = "yielded" =>
                  /\ \E i \in 1..Len(lines) : IsDoneLine(lines[i])
                  /\ IsPrefix(emitted, ContentsOf(BeforeDone(TerminatedLines(stream))))
            /\ pc = "done" =>
                  /\ ended = "sentinel"
                  /\ reader = "released" /\ releases = 1
                  /\ emitted = ContentsOf(BeforeDone(TerminatedLines(stream))))
    /\ [][ended = "sentinel" =>
            /\ pc' = "done"
            /\ emitted' = emitted
            /\ pos' = pos
            /\ releases' = releases]_vars

\* the sentinel ended the decode with a data line of the same chunk unvisited
C3_Witness ==
    /\ ended = "sentinel"
    /\ emitted # <<>>
    /\ \E i \in 1..Len(lines) : Carries(lines[i])

\* C4: malformed-line recovery. A 'data: ' line that is not JSON raises no
\* error and emits nothing: the decode emits what it emits for the body without
\* its malformed lines, and the only errors are those of the transport.
C4_MalformedLineRecovery ==
    /\ pc = "done" => emitted = OneChunkFragments(WithoutMalformed(stream))
    /\ error.msg \in {"none", "read failed", "decode failed", "Failed to fetch",
                      "API request failed", "Failed to get response stream",
                      "Failed to load application configuration", "API key is required"}
    /\ (pc = "failed" /\ reader = "released") => error.msg \in {"read failed", "decode failed"}

\* a decode that ended with both fragments around a malformed line
C4_Witness ==
    /\ pc = "done"
    /\ stream = Body(<<LineHi, LineNotJson, LineMultiByte>>)
    /\ emitted = <<JStr(<<72, 105>>), JStr(<<233, 33>>)>>
    /\ error = NoError

\* C5: reader release on every exit path. The reader is locked exactly while
\* the loop is suspended; a decode that acquired a reader and ended (end of
\* stream, sentinel, or a throw of read() or decode()) released it exactly once.
C5_ReaderReleased ==
    /\ releases <= 1
    /\ reader = "locked" <=> pc \in {"awaitRead", "yielded"}
    /\ reader = "none" => releases = 0
    /\ (pc \in {"done", "failed"} /\ reader # "none") => reader = "released" /\ releases = 1
    /\ ended # "no" => reader = "released" /\ releases = 1

\* read() threw after a fragment, and the reader is released
C5_Witness ==
    /\ pc = "failed"
    /\ ended = "error"
    /\ emitted # <<>>
    /\ reader = "released"

\* C6: aggregator equivalence. What generateResponse returns is {text}, text
\* the concatenation without separator of the fragments of the decode, and it
\* returns only when the decode has ended; no fragments give the empty string.
C6_AggregatorEquivalence ==
    /\ result # NoResult <=> pc = "done"
    /\ result # NoResult =>
          /\ DOMAIN result = {"text"}
          /\ result.text = ConcatAll(emitted)
          /\ result.text = ConcatAll(ReferenceFragments(stream))
    /\ fullText = ConcatAll(IF pc = "yielded" THEN SubSeq(emitted, 1, Len(emitted) - 1)
                            ELSE emitted)

\* generateResponse returned the concatenation of two fragments
C6_Witness ==
    /\ result # NoResult
    /\ Len(emitted) = 2
    /\ result.text = <<72, 105, 233, 33>>

\* C7: decoder precondition. For a config without apiKey or without baseURL the
\* call fails at the configuration check: no request is issued, so no response
\* arrives and no reader is acquired.
C7_ConfigPrecondition ==
    (~Has(config, "apiKey") \/ ~Has(config, "baseURL")) =>
        /\ requests = <<>>
        /\ response = NoResponse
        /\ pc \in {"idle", "awaitCatalog", "failed"}

C9_NonOkResponse ==
    (response # NoResponse /\ (response.status < 200 \/ response.status > 299)) =>
        /\ pc = "failed"
        /\ error = [msg |-> "API request failed", status |-> response.status,
                    statusText |-> StatusText(response.status)]
        /\ reader = "none" /\ ~readCalled /\ pos = 0 /\ releases = 0
        /\ emitted = <<>> /\ result = NoResult

\* a 404 answered a configured call
C9_Witness ==
    /\ response # NoResponse
    /\ response.status = 404
    /\ response.hasBody
    /\ pc = "failed"
    /\ isConfigured(config)

\* C10: missing body. An ok response without a reader makes the call fail with
\* an error that is not the HTTP-status error; nothing is emitted and there is
\* no reader to release.
C10_MissingBody ==
    (response # NoResponse /\ response.status >= 200 /\ response.status <= 299
       /\ ~response.hasBody) =>
        /\ pc = "failed"
        /\ error = [msg |-> "Failed to get response stream"]
        /\ \A s \in {200, 401, 404, 500} : error # HttpError(s)
        /\ error.msg # "API request failed"
        /\ reader = "none" /\ ~readCalled /\ releases = 0
        /\ emitted = <<>> /\ result = NoResult

\* a 200 without a body answered the call
C10_Witness ==
    /\ response # NoResponse
    /\ response.status = 200
    /\ ~response.hasBody
    /\ pc = "failed"

(***************************************************************************)
(* The configuration resolver: getLLMConfig, handleModelChange and the     *)
(* static lookups, called directly.                                        *)
(***************************************************************************)
\* the last direct call was getLLMConfig, and it has settled
Resolved == lastCall.op = "getLLMConfig"

\* a stored item is a record with a non-empty baseUrl and a non-empty apiKey
ValidRecord(item) ==
    /\ item # NoItem /\ item # Garbage
    /\ "baseUrl" \in DOMAIN item /\ item.baseUrl # ""
    /\ "apiKey" \in DOMAIN item /\ item.apiKey # ""

\* a stored item is a record that carries a selected model
CarriesModel(item) ==
    /\ item # NoItem /\ item # Garbage
    /\ "selectedModel" \in DOMAIN item /\ item.selectedModel # ""

\* the endpoint of a config, under either spelling
EndpointOf(c) ==
    IF "baseURL" \in DOMAIN c /\ c.baseURL # "" THEN c.baseURL ELSE c.baseUrl

\* the id of the first model of the loaded catalog
FirstModelId == llmConfigCache.predefinedModels[1].id

\* C11: persisted path. getLLMConfig(false) with a stored record of non-empty
\* baseUrl and apiKey, the catalog being available, returns the stored endpoint
\* under baseURL and baseUrl, the stored apiKey, the catalog's models, and the
\* stored selectedModel if there is one, else the id of the catalog's first model.
C11_PersistedPath ==
    (Resolved /\ ~lastCall.forceShow /\ ValidRecord(lastCall.before)
        /\ lastCall.cause # "catalog") =>
        /\ ~lastCall.threw
        /\ DOMAIN lastCall.ret = {"baseURL", "baseUrl", "apiKey", "models", "selectedModel"}
        /\ lastCall.ret.baseURL = lastCall.before.baseUrl
        /\ lastCall.ret.baseUrl = lastCall.before.baseUrl
        /\ lastCall.ret.apiKey = lastCall.before.apiKey
        /\ lastCall.ret.models = llmConfigCache.predefinedModels
        /\ lastCall.ret.selectedModel =
              IF CarriesModel(lastCall.before) THEN lastCall.before.selectedModel
              ELSE FirstModelId

\* the persisted path was taken for a record with a selected model that is not
\* the catalog's first
C11_Witness ==
    /\ Resolved /\ ~lastCall.forceShow /\ ValidRecord(lastCall.before)
    /\ ~lastCall.threw
    /\ CarriesModel(lastCall.before)
    /\ lastCall.ret.selectedModel = "m2"
    /\ FirstModelId = "m1"

\* C12: the persisted path is interaction-free. When getLLMConfig(false) returns
\* from a valid stored record it has issued no network request, has not invoked
\* the prompt and has not written to storage.
C12_PersistedPathInteractionFree ==
    (Resolved /\ ~lastCall.forceShow /\ ValidRecord(lastCall.before) /\ ~lastCall.threw) =>
        /\ ~lastCall.fetched
        /\ ~lastCall.prompted
        /\ lastCall.after = lastCall.before

\* C13: cancellation. When the prompt signals cancellation, getLLMConfig returns
\* null, does not throw, and leaves storage as it was before the call.
C13_Cancellation ==
    (Resolved /\ lastCall.prompt = "cancelled") =>
        /\ ~lastCall.threw
        /\ lastCall.ret = NullConfig
        /\ lastCall.after = lastCall.before
        /\ storage = lastCall.before

\* the forced prompt was cancelled over a stored record
C13_Witness ==
    /\ Resolved /\ lastCall.prompt = "cancelled"
    /\ lastCall.forceShow
    /\ ValidRecord(lastCall.before)
    /\ lastCall.ret = NullConfig

\* C14: persisted shape. After getLLMConfig with no stored record and a prompt
\* that succeeds, storage holds exactly baseUrl, apiKey and selectedModel: the
\* prompt's endpoint and key, and the catalog's first model id; never the models.
C14_PersistedShape ==
    (Resolved /\ lastCall.before = NoItem /\ lastCall.prompt = "resolved") =>
        /\ DOMAIN lastCall.after = {"baseUrl", "apiKey", "selectedModel"}
        /\ lastCall.after.baseUrl = EndpointOf(lastCall.answer)
        /\ lastCall.after.apiKey = lastCall.answer.apiKey
        /\ lastCall.after.selectedModel = FirstModelId
        /\ storage = lastCall.after

\* the prompt succeeded over empty storage, and the config returned carries the
\* models
C14_Witness ==
    /\ Resolved /\ lastCall.before = NoItem /\ lastCall.prompt = "resolved"
    /\ "models" \in DOMAIN lastCall.ret
    /\ storage # NoItem

\* C15: carry-forward of the selected model. Whenever the prompt succeeds, for
\* either value of forceShow, the selectedModel persisted and returned is that of
\* the record stored before the call if it had one, else the catalog's first.
C15_CarryForward ==
    (Resolved /\ lastCall.prompt = "resolved") =>
        LET expected == IF CarriesModel(lastCall.before) THEN lastCall.before.selectedModel
                        ELSE FirstModelId
        IN  /\ lastCall.after.selectedModel = expected
            /\ lastCall.ret.selectedModel = expected

\* C16: selectedModel validity. Every config getLLMConfig returns or
\* handleModelChange produces has a selectedModel that is the id of one of its
\* models.
C16_SelectedModelValid ==
    /\ (Resolved /\ ~lastCall.threw /\ lastCall.ret # NullConfig) =>
          lastCall.ret.selectedModel \in Ids(lastCall.ret.models)
    /\ (lastCall.op = "handleModelChange" /\ "config" \in DOMAIN lastCall.effects
          /\ "models" \in DOMAIN lastCall.effects.config) =>
          lastCall.effects.config.selectedModel \in Ids(lastCall.effects.config.models)

\* C17: validation before acceptance. A configuration the prompt supplied is
\* persisted or returned only if validateApiKey accepts its endpoint and key.
C17_ValidatedBeforeAccepted ==
    (Resolved /\ lastCall.prompt = "resolved"
        /\ (lastCall.after # lastCall.before \/ (~lastCall.threw /\ lastCall.ret # NullConfig))) =>
        validateApiKey(EndpointOf(lastCall.answer), lastCall.answer.apiKey)

\* C18: change of the selected model. For a non-null config, handleModelChange
\* persists baseUrl (the config's endpoint under either spelling), apiKey and the
\* new selectedModel, and sets the config with only selectedModel replaced; when
\* setItem throws it writes and sets nothing but the error. For a null config it
\* writes nothing and changes nothing.
C18_ModelChange ==
    lastCall.op = "handleModelChange" =>
        IF IsNull(lastCall.currentConfig)
        THEN lastCall.after = lastCall.before /\ lastCall.effects = <<>>
        ELSE IF lastCall.throws
        THEN /\ lastCall.after = lastCall.before
             /\ DOMAIN lastCall.effects = {"error"}
        ELSE /\ lastCall.after = [baseUrl |-> EndpointOf(lastCall.currentConfig),
                                  apiKey |-> lastCall.currentConfig.apiKey,
                                  selectedModel |-> lastCall.modelId]
             /\ storage = lastCall.after
             /\ DOMAIN lastCall.effects = {"item", "config"}
             /\ DOMAIN lastCall.effects.config =
                   DOMAIN lastCall.currentConfig \cup {"selectedModel"}
             /\ lastCall.effects.config.selectedModel = lastCall.modelId
             /\ \A f \in DOMAIN lastCall.currentConfig \ {"selectedModel"} :
                   lastCall.effects.config[f] = lastCall.currentConfig[f]

\* the model of a config that carries its endpoint under baseUrl only was changed
C18_Witness ==
    /\ lastCall.op = "handleModelChange"
    /\ ~IsNull(lastCall.currentConfig)
    /\ "baseURL" \notin DOMAIN lastCall.currentConfig
    /\ ~lastCall.throws
    /\ lastCall.after.baseUrl = "https://q"
    /\ lastCall.after.selectedModel # lastCall.currentConfig.selectedModel

\* C19: tolerant storage read. With the storage key absent, not JSON, or lacking
\* a non-empty baseUrl or apiKey, getLLMConfig(false), the catalog being
\* available, goes on to the prompt; it fails only if the prompt does.
C19_TolerantRead ==
    (Resolved /\ ~lastCall.forceShow /\ ~ValidRecord(lastCall.before)
        /\ lastCall.cause # "catalog") =>
        /\ lastCall.prompted
        /\ lastCall.prompt # "none"
        /\ lastCall.threw => lastCall.prompt = "failed"

\* the stored text was not JSON, and the prompt's config was returned
C19_Witness ==
    /\ Resolved /\ ~lastCall.forceShow
    /\ lastCall.before = Garbage
    /\ lastCall.prompt = "resolved"
    /\ ~lastCall.threw
    /\ lastCall.ret # NullConfig

\* C20: static lookups. getAvailableModels returns the config's models when it
\* carries them and the catalog's otherwise, also for null; getProviderName
\* returns the name of the catalog's provider whose url is the argument, and
\* 'Custom Provider' when there is none.
C20_StaticLookups ==
    /\ (lastCall.op = "getAvailableModels" /\ ~lastCall.threw) =>
          lastCall.ret =
             IF lastCall.config # NullConfig /\ "models" \in DOMAIN lastCall.config
             THEN lastCall.config.models
             ELSE llmConfigCache.predefinedModels
    /\ (lastCall.op = "getProviderName" /\ ~lastCall.threw) =>
          LET ps == llmConfigCache.providers
          IN  IF \E i \in 1..Len(ps) : ps[i].url = lastCall.url
              THEN \E i \in 1..Len(ps) : ps[i].url = lastCall.url /\ lastCall.ret = ps[i].name
              ELSE lastCall.ret = "Custom Provider"

\* a url that only begins like a provider's got the fallback name
C20_Witness ==
    /\ lastCall.op = "getProviderName" /\ ~lastCall.threw
    /\ lastCall.url = "https://p/v1"
    /\ lastCall.ret = "Custom Provider"
    /\ \E i \in 1..Len(llmConfigCache.providers) : llmConfigCache.providers[i].url = "https://p"

(***************************************************************************)
(* Further properties of generateResponseStream and generateResponse.      *)
(***************************************************************************)
\* the text of the body after its last newline
UnterminatedTail(s) == LET all == Split(TextOf(s)) IN all[Len(all)]

\* C24: trailing partial line. When the body ends with text that no newline
\* terminates, that text is discarded unprocessed, even if it is a complete
\* 'data: ' payload: no fragment is emitted for it and the decode ends normally.
C24_TrailingPartialLine ==
    (pc = "done" /\ ended = "eof" /\ UnterminatedTail(stream) # <<>>) =>
        /\ emitted = ContentsOf(BeforeDone(TerminatedLines(stream)))
        /\ error = NoError
        /\ result = [text |-> ConcatAll(emitted)]
        /\ buffer = UnterminatedTail(stream)

\* a body that ends with a complete data line without its newline has ended
\* with the fragment of the line before only
C24_Witness ==
    /\ pc = "done" /\ ended = "eof"
    /\ Carries(UnterminatedTail(stream))
    /\ Len(emitted) = 1
    /\ result.text = <<72, 105>>

\* C25: request ordering. A call issues at most one request, a POST to
\* baseURL + '/chat/completions', after the config check; the response comes
\* after the request, the reader after a 2xx response with a body, and reads
\* after the reader.
C25_RequestOrdering ==
    /\ Len(requests) <= 1
    /\ pc \in {"idle", "awaitCatalog"} => requests = <<>>
    /\ requests # <<>> =>
          /\ ConfigError(config) = NoError
          /\ requests[1].method = "POST"
          /\ requests[1].url[2] = "/chat/completions"
          /\ "baseURL" \in DOMAIN config => requests[1].url[1] = config.baseURL
    /\ response # NoResponse => Len(requests) = 1
    /\ reader # "none" =>
          /\ response # NoResponse
          /\ response.status \in 200..299
          /\ response.hasBody
    /\ readCalled => reader # "none"
    /\ pos > 0 => readCalled

\* a call that failed on the status of its one response, no reader acquired
C25_Witness ==
    /\ pc = "failed"
    /\ Len(requests) = 1
    /\ response # NoResponse
    /\ response.status = 500
    /\ reader = "none"
    /\ ~readCalled

\* C27: error propagation through the aggregator. The error generateResponseStream
\* throws (configuration, status, missing body, fetch or read) is the one
\* generateResponse fails with, and no text is returned then; a text is returned
\* only by a decode that ended without error. No error comes from a line.
C27_ErrorPropagation ==
    /\ pc = "failed" =>
          /\ result = NoResult
          /\ error # NoError
          /\ error.msg \in {"API key is required", "Failed to load application configuration",
                            "Failed to fetch", "API request failed",
                            "Failed to get response stream", "read failed", "decode failed"}
    /\ (pc # "idle" /\ (IsNull(config) \/ ~Has(config, "apiKey"))) =>
          pc = "failed" /\ error.msg = "API key is required"
    /\ (response # NoResponse /\ response.status \notin 200..299) =>
          /\ pc = "failed"
          /\ error = [msg |-> "API request failed", status |-> response.status,
                      statusText |-> StatusText(response.status)]
    /\ ended = "error" => pc = "failed" /\ error.msg \in {"read failed", "decode failed"}
    /\ result # NoResult => pc = "done" /\ error = NoError /\ ended \in {"eof", "sentinel"}

\* a read failed after a fragment had been accumulated, and no text was returned
C27_Witness ==
    /\ pc = "failed" /\ ended = "error"
    /\ error.msg = "read failed"
    /\ fullText # <<>>
    /\ result = NoResult

\* the text received so far, and its lines
TextSoFar == DecodeStream(NewTextDecoder, SubSeq(stream, 1, pos)).text
LinesSoFar == Split(TextSoFar)

\* C28: decode buffer invariant. Whenever the next read is awaited, the buffer
\* has no newline and is the text received so far after its last newline, and
\* the lines before it have been processed once each, in order.
C28_BufferInvariant ==
    (pc = "awaitRead" /\ reader = "locked") =>
        /\ \A i \in 1..Len(buffer) : buffer[i] # 10
        /\ buffer = LinesSoFar[Len(LinesSoFar)]
        /\ lines = <<>>
        /\ emitted = ContentsOf(SubSeq(LinesSoFar, 1, Len(LinesSoFar) - 1))

\* a read is awaited with part of a line in the buffer and a fragment emitted
C28_Witness ==
    /\ pc = "awaitRead"
    /\ buffer # <<>>
    /\ Len(emitted) = 1
    /\ 0 < pos /\ pos < Len(stream)

\* C29: termination. If every await settles and the consumer keeps pulling, the
\* call ends; if it had acquired the reader, it ends with the reader released.
C29_Termination ==
    /\ <>(pc \in {"done", "failed"})
    /\ (reader = "locked") ~> (pc \in {"done", "failed"} /\ reader = "released" /\ releases = 1)

\* a decode that ran to the end of a body of two fragments and released its reader
C29_Witness ==
    /\ pc = "done" /\ ended = "eof"
    /\ reader = "released"
    /\ Len(emitted) = 2
    /\ pos = Len(stream)

(***************************************************************************)
(* Properties of the App's operations on the configuration.                *)
(***************************************************************************)
\* C23: cancellation is not a failure in the UI. When the prompt opened by
\* handleConfigureClick is cancelled, the App's config is left as it was (a
\* configured App stays configured), its error state is not set and storage is
\* not written.
C23_CancelLeavesApp ==
    [][PromptCancel("click") =>
          /\ app'.config = app.config
          /\ app'.error = app.error
          /\ isConfigured(app'.config) = isConfigured(app.config)
          /\ storage' = storage]_vars

\* a configured App whose Configure prompt was cancelled last is configured,
\* with no error shown
C23_Witness ==
    /\ lastCall.op = "cancel"
    /\ configured
    /\ app.error = ""
    /\ storage = [baseUrl |-> "https://p", apiKey |-> "k", selectedModel |-> "m2"]

\* the record a write of storage is to leave, from what its writer had
WrittenBy(w) ==
    IF w.by = "getLLMConfig"
    THEN [baseUrl |-> EndpointOf(w.answer),
          apiKey |-> w.answer.apiKey,
          selectedModel |-> IF CarriesModel(w.saved) THEN w.saved.selectedModel
                            ELSE w.catalog.predefinedModels[1].id]
    ELSE [baseUrl |-> EndpointOf(w.currentConfig),
          apiKey |-> w.currentConfig.apiKey,
          selectedModel |-> w.modelId]

\* C26: last writer wins on durable storage. However the runs of getLLMConfig
\* (read, prompt, write) and the writes of handleModelChange interleave, storage
\* holds in every state the complete record of the write made last, as its
\* writer computed it, and what it held at the start before any write.
C26_LastWriterWins ==
    IF lastCall.write = NoWrite THEN storage \in InitialItems
    ELSE storage = WrittenBy(lastCall.write)

\* getLLMConfig wrote last, after handleModelChange had written while it was at
\* the prompt: the model handleModelChange chose is not in storage
C26_Witness ==
    /\ lastCall.write.by = "getLLMConfig"
    /\ lastCall.write.raced
    /\ storage = [baseUrl |-> "https://q", apiKey |-> "k2", selectedModel |-> "m1"]
    /\ configured
    /\ app.config.selectedModel = "m1"

\* an operation of the App has completed and none is in progress
Settled ==
    /\ lastCall.op \in {"load", "configure", "cancel", "modelChange", "modelChangeFailed"}
    /\ effect = "done"
    /\ \A c \in {"load", "click"} : resolver[c].st = "idle"

\* C30: memory and storage agree. After every completed operation of the App,
\* when its config is not null, the record in storage has the endpoint, the
\* apiKey and the selectedModel of the config.
C30_MemoryStorageAgreement ==
    (Settled /\ ~IsNull(app.config)) =>
        /\ storage # NoItem /\ storage # Garbage
        /\ Has(storage, "baseUrl") /\ storage.baseUrl = EndpointOf(app.config)
        /\ Has(storage, "apiKey") /\ storage.apiKey = app.config.apiKey
        /\ "selectedModel" \in DOMAIN storage
        /\ storage.selectedModel = app.config.selectedModel

\* C30 as it holds: after every completed operation of the App, when its config
\* is not null, the record in storage has the endpoint and the apiKey of the
\* config, and its selectedModel where the record carries one; where it carries
\* none, the config selects the first model of the catalog.
C30_AgreementWhereStored ==
    (Settled /\ ~IsNull(app.config)) =>
        /\ storage # NoItem /\ storage # Garbage
        /\ Has(storage, "baseUrl") /\ storage.baseUrl = EndpointOf(app.config)
        /\ Has(storage, "apiKey") /\ storage.apiKey = app.config.apiKey
        /\ app.config.selectedModel =
              IF CarriesModel(storage) THEN storage.selectedModel
              ELSE app.config.models[1].id

\* the load found a record without a model: the config selects the first
\* model, and storage is as it was
C30_Witness ==
    /\ Settled /\ lastCall.op = "load"
    /\ lastCall.write = NoWrite
    /\ storage = [baseUrl |-> "https://p", apiKey |-> "k"]
    /\ configured
    /\ app.config.selectedModel = "m1"

(***************************************************************************)
(* Properties of two concurrent calls, and of a consumer that stops.       *)
(***************************************************************************)
\* the text the second call has received, and its lines
SecondLinesSoFar ==
    Split(DecodeStream(NewTextDecoder, SubSeq(second.stream, 1, second.pos)).text)

\* C21: independence of concurrent decodes. With the reads and pulls of two
\* calls interleaved in any order, each call emits the fragments it would emit
\* alone on its body, each buffer holds the text of its own body after its last
\* newline, and a call that has not ended holds its reader whatever has become
\* of the other.
C21_Independence ==
    /\ IsPrefix(emitted, ReferenceFragments(stream))
    /\ IsPrefix(second.emitted, ReferenceFragments(second.stream))
    /\ (pc = "done" /\ ended \in {"eof", "sentinel"}) => emitted = ReferenceFragments(stream)
    /\ (second.pc = "done" /\ second.ended \in {"eof", "sentinel"}) =>
          second.emitted = ReferenceFragments(second.stream)
    /\ (pc = "awaitRead" /\ reader = "locked") => buffer = LinesSoFar[Len(LinesSoFar)]
    /\ second.pc = "awaitRead" => second.buffer = SecondLinesSoFar[Len(SecondLinesSoFar)]
    /\ pc \in {"awaitRead", "yielded"} => reader = "locked" /\ releases = 0
    /\ second.pc \in {"awaitRead", "yielded", "stopped"} =>
          second.reader = "locked" /\ second.releases = 0
    /\ pc \in {"done", "failed"} /\ reader # "none" => reader = "released" /\ releases = 1
    /\ second.pc \in {"done", "failed"} => second.reader = "released" /\ second.releases = 1

\* the first call has ended at the sentinel and released its reader while the
\* second, part of a line in its buffer and a fragment emitted, holds its own
C21_Witness ==
    /\ pc = "done" /\ ended = "sentinel" /\ reader = "released"
    /\ second.pc = "awaitRead" /\ second.reader = "locked"
    /\ second.buffer # <<>>
    /\ Len(second.emitted) = 1
    /\ Len(emitted) = 1

\* C22: pull-driven reading. A read is awaited only while a pull of the
\* consumer is outstanding; a read is issued only when the lines received could
\* not satisfy the pulls made; and once the consumer has stopped pulling no
\* read is issued.
C22_PullDriven ==
    /\ [](/\ second.pc = "awaitRead" => second.pulls = Len(second.emitted) + 1
          /\ second.pc \in {"yielded", "stopped"} => second.pulls = Len(second.emitted)
          /\ second.reads <= second.pos + 1)
    /\ [][/\ second'.reads > second.reads =>
                /\ second'.pulls > Len(second'.emitted)
                /\ second'.lines = <<>>
                /\ second'.pc = "awaitRead"
          /\ (second.pc = "stopped" \/ second.ended = "return") =>
                second'.reads = second.reads]_vars

\* the consumer stopped pulling after the first fragment, with more of the body
\* to come: the line had come in three chunks, and no fourth read was issued
C22_Witness ==
    /\ second.pc = "stopped"
    /\ Len(second.emitted) = 1
    /\ second.pulls = 1
    /\ second.reads = 3
    /\ second.pos < Len(second.stream)

(***************************************************************************)
(* Further properties of the configuration resolver.                       *)
(***************************************************************************)
\* the last direct call was getLLMConfig, the prompt gave it a config, and it
\* returned one
ReturnedFromPrompt ==
    /\ Resolved /\ lastCall.prompt = "resolved"
    /\ ~lastCall.threw /\ ~IsNull(lastCall.ret)

\* a direct call of getLLMConfig(false) settles in this step
FollowingCallSettles ==
    /\ resolver["call"].st # "idle" /\ ~resolver["call"].forceShow
    /\ resolver'["call"].st = "idle"

\* C31: resolve round trip. After getLLMConfig returned a config C from a
\* prompt that succeeded, the getLLMConfig(false) that follows it returns,
\* without prompting, a config with C's endpoint, apiKey and selectedModel, and
\* isConfigured answers the same on both: C is configured.
C31_ResolveRoundTrip ==
    [][(ReturnedFromPrompt /\ FollowingCallSettles) =>
          /\ ~lastCall'.prompted /\ ~lastCall'.threw /\ ~IsNull(lastCall'.ret)
          /\ EndpointOf(lastCall'.ret) = EndpointOf(lastCall.ret)
          /\ lastCall'.ret.apiKey = lastCall.ret.apiKey
          /\ lastCall'.ret.selectedModel = lastCall.ret.selectedModel
          /\ isConfigured(lastCall'.ret) = isConfigured(lastCall.ret)
          /\ isConfigured(lastCall.ret)]_vars

\* a step of the App that settles no call of getLLMConfig and moves the load
\* effect nowhere: a model change, or nothing
NoCallSettles == resolver' = resolver /\ effect' = effect

\* C32: the model change is all-or-nothing. When the write of storage in
\* handleModelChange fails, the App's config stays as it was and the error is
\* set; the App's selectedModel changes only in a step whose write succeeded,
\* storage then holding the new model.
C32_ModelChangeAllOrNothing ==
    [][NoCallSettles =>
          /\ lastCall'.op = "modelChangeFailed" =>
                /\ app'.config = app.config
                /\ storage' = storage
                /\ app'.error = "Failed to save model selection"
          /\ app'.config # app.config =>
                /\ lastCall'.op = "modelChange"
                /\ storage'.selectedModel = app'.config.selectedModel
                /\ app'.config.selectedModel = lastCall'.write.modelId
                /\ app'.error = app.error]_vars

\* a model change failed at the write: the config still selects the model
\* storage holds, and the error is shown
C32_Witness ==
    /\ lastCall.op = "modelChangeFailed"
    /\ configured
    /\ app.error = "Failed to save model selection"
    /\ CarriesModel(storage)
    /\ app.config.selectedModel = storage.selectedModel

\* C33: the model id in the request. The model of the request body
\* generateResponseStream sends is a string: config.selectedModel if set, else
\* the id of the first of config.models if there is one, else the id of the
\* catalog's first model; never a model record.
C33_ModelIdInRequest ==
    (lastCall.op = "generateResponseStream" /\ ~lastCall.threw) =>
        /\ lastCall.model.t = "str"
        /\ lastCall.model.v =
              IF Has(lastCall.config, "selectedModel") THEN lastCall.config.selectedModel
              ELSE IF "models" \in DOMAIN lastCall.config /\ Len(lastCall.config.models) > 0
              THEN lastCall.config.models[1].id
              ELSE lastCall.first

\* C34: failures other than cancellation. When the prompt, or the load of the
\* catalog, fails with an error whose message is not 'cancelled', getLLMConfig
\* throws it again, returns no config and leaves storage as it was.
C34_FailuresRethrown ==
    (Resolved /\ (lastCall.prompt = "failed" \/ lastCall.cause = "catalog")) =>
        /\ lastCall.threw
        /\ lastCall.ret = NullConfig
        /\ lastCall.after = lastCall.before
        /\ storage = lastCall.before

\* the forced prompt failed over a stored record, which is kept
C34_Witness ==
    /\ Resolved /\ lastCall.prompt = "failed"
    /\ lastCall.forceShow
    /\ lastCall.threw
    /\ ValidRecord(lastCall.before)
    /\ storage = lastCall.before

C36_CatalogCoherence ==
    (/\ lastCall.op \in {"getLLMConfig", "getAvailableModels", "getProviderName",
                         "generateResponseStream"}
     /\ "catalog" \in DOMAIN lastCall
     /\ lastCall.catalog # NoCatalog
     /\ configCache # NoCatalog) =>
        lastCall.catalog = configCache

(***************************************************************************)
(* The DemoCards component.                                                *)
(***************************************************************************)
\* the last click of 'Use This Dataset' has run to its end
LoadDemoSettled == demo.rendered /\ demo.last.op = "handleLoadDemo"

\* C37: 'Use This Dataset'. Not disabled, and with the CSV fetched
\* successfully, by this click or before it, handleLoadDemo calls onLoadDemo
\* exactly once, with the fetched content; disabled, it never calls onLoadDemo
\* and starts no fetch.
C37_UseThisDataset ==
    LoadDemoSettled =>
        /\ demo.last.disabled =>
              /\ demo.last.invoked = 0 /\ demo.last.fetch = "none"
              /\ demo.onLoadDemo = <<>> /\ demo.started = 0
        /\ (/\ ~demo.last.disabled
            /\ \/ demo.last.fetch = "ok"
               \/ demo.last.fetch = "none" /\ demo.last.before = "ok") =>
              /\ demo.last.invoked = 1
              /\ demo.last.content = demo.last.text

\* C38: the loading flag. loading[demo.id] is true in every state in which a
\* CSV fetch or an HTML fetch of the demo is in flight, also when two are and
\* one of them has settled, and false once none is.
C38_LoadingFlag ==
    demo.rendered => (demo.loading <=> demo.pending # <<>>)

(***************************************************************************)
(* The start of the App.                                                   *)
(***************************************************************************)
\* the App's config is the configured record storage holds
ConfigIsStoredRecord ==
    /\ configured /\ ValidRecord(storage)
    /\ app.config.baseURL = storage.baseUrl
    /\ app.config.apiKey = storage.apiKey

====
